---- MODULE Spec2Model ----
(***************************************************************************)
(* Verification model of the caching core of selene                        *)
(* (src/src/selene/core/med_logic.py and its callers), of its symptom      *)
(* analyzer (src/src/selene/core/deterministic_analysis.py), of its        *)
(* symptom-log storage (src/src/selene/storage/data_manager.py) and of its *)
(* calls of the language model (insights_generator.py, med_logic.py).      *)
(*                                                                         *)
(* Specifications:                                                         *)
(*   Spec         one TTLCache instance, max_size >= 1, sequential calls   *)
(*   SpecAnySize  the same, the constructor argument max_size unrestricted *)
(*   SpecThreads  several threads calling one TTLCache, statement by       *)
(*                statement, under its lock                                *)
(*   SpecApp      the cached entry points (contextualize_query,            *)
(*                query_knowledge_base, get_user_context_cached), the      *)
(*                saves and the invalidation hooks, each call as a whole   *)
(*   SpecUserRace save_pulse_entry and get_user_context_cached in two      *)
(*                threads, statement by statement                          *)
(*   SpecKeys     one pair of calls of generate_cache_key                  *)
(*   SpecAnalyzer one call of a method of DeterministicAnalyzer: the       *)
(*                severity mapper, analyze_symptom_statistics,             *)
(*                assess_risk_level                                        *)
(*   SpecPatterns one call of detect_patterns, or of assess_risk_level or  *)
(*                analyze_symptom_statistics on entries with missing,      *)
(*                null and ill-typed fields                                *)
(*   SpecSave     save_pulse_entry on the history file and its backups,    *)
(*                in several threads, statement by statement               *)
(*   SpecReport   one call of generate_insights_report: its attempt loop,  *)
(*                with weak fairness of its steps                          *)
(*   SpecMedgemma one call of call_medgemma or call_medgemma_stream        *)
(***************************************************************************)
EXTENDS Integers, Sequences, FiniteSets, TLC

(***************************************************************************)
(* Bounds of the model                                                     *)
(***************************************************************************)
NumKeys == 3
NumValues == 2
MaxSize == 2
MaxTTL == 1
MaxTime == 3
MaxGets == 3
NumThreads == 2
MaxCalls == 3
NumQueries == 1
MaxHistory == 3
MaxDocs == 2
AppCacheSize == 2
UserCacheSize == 2
MaxAppCalls == 2
NumStages == 2
MaxArgs == 2
MaxEntries == 2
MaxLen == 9
MaxK == 46
MaxDays == 15

Keys == 1..NumKeys
Values == {<<"v", i>> : i \in 1..NumValues}
TTLs == 1..MaxTTL
Threads == 1..NumThreads

\* Python's None, the "absent" result of TTLCache.get: a value different
\* from every string, tuple and number that is cached
None == <<"None">>

(***************************************************************************)
(* CacheEntry and TTLCache as values.  The dict self.cache is a sequence   *)
(* of entries in insertion order (the iteration order of a Python dict).   *)
(***************************************************************************)
CacheEntry(k, v, t, ttl) ==
    [key |-> k, value |-> v, timestamp |-> t, ttl_seconds |-> ttl]

TTLCache(n) == [entries |-> << >>, max_size |-> n, hits |-> 0, misses |-> 0]

\* CacheEntry.is_expired at clock reading t
is_expired_ge(e, t) == t >= e.timestamp + e.ttl_seconds
is_expired(e, t) == t > e.timestamp + e.ttl_seconds

KeysOf(entries) == {entries[i].key : i \in 1..Len(entries)}

\* position of key k in the dict (k is present)
IndexOf(entries, k) == CHOOSE i \in 1..Len(entries) : entries[i].key = k

EntryOf(entries, k) == entries[IndexOf(entries, k)]

RemoveAt(entries, i) ==
    [j \in 1..(Len(entries) - 1) |-> IF j < i THEN entries[j] ELSE entries[j + 1]]

\* del self.cache[k]
DelKey(entries, k) == RemoveAt(entries, IndexOf(entries, k))

\* min(self.cache.keys(), key=timestamp): the first key, in iteration
\* order, whose timestamp is minimal
OldestIndex(entries) ==
    CHOOSE i \in 1..Len(entries) :
        /\ \A j \in 1..Len(entries) : entries[i].timestamp <= entries[j].timestamp
        /\ \A j \in 1..(i - 1) : entries[j].timestamp > entries[i].timestamp

NewestIndex(entries) ==
    CHOOSE i \in 1..Len(entries) :
        /\ \A j \in 1..Len(entries) : entries[i].timestamp >= entries[j].timestamp
        /\ \A j \in 1..(i - 1) : entries[j].timestamp < entries[i].timestamp

\* TTLCache._evict_oldest
evict_newest(entries) ==
    IF Len(entries) = 0 THEN entries ELSE RemoveAt(entries, NewestIndex(entries))
evict_oldest(entries) ==
    IF Len(entries) = 0 THEN entries ELSE RemoveAt(entries, OldestIndex(entries))

\* self.cache[key] = entry : in place when the key exists, appended otherwise
Store(entries, e) ==
    IF e.key \in KeysOf(entries)
    THEN [entries EXCEPT ![IndexOf(entries, e.key)] = e]
    ELSE Append(entries, e)

\* TTLCache.get: the cache after the call and the returned value
get_refreshing(c, k, t) ==
    IF k \in KeysOf(c.entries)
    THEN LET e == c.entries[IndexOf(c.entries, k)] IN
         IF is_expired(e, t)
         THEN [cache |-> [c EXCEPT !.entries = DelKey(c.entries, k),
                                   !.misses = @ + 1],
               ret |-> None]
         ELSE [cache |-> [c EXCEPT !.hits = @ + 1,
                                   !.entries[IndexOf(c.entries, k)].timestamp = t],
               ret |-> e.value]
    ELSE [cache |-> [c EXCEPT !.misses = @ + 1], ret |-> None]
get_expired_uncounted(c, k, t) ==
    IF k \in KeysOf(c.entries)
    THEN LET e == c.entries[IndexOf(c.entries, k)] IN
         IF is_expired(e, t)
         THEN [cache |-> [c EXCEPT !.entries = DelKey(c.entries, k)],
               ret |-> None]
         ELSE [cache |-> [c EXCEPT !.hits = @ + 1], ret |-> e.value]
    ELSE [cache |-> [c EXCEPT !.misses = @ + 1], ret |-> None]
get(c, k, t) ==
    IF k \in KeysOf(c.entries)
    THEN LET e == c.entries[IndexOf(c.entries, k)] IN
         IF is_expired(e, t)
         THEN [cache |-> [c EXCEPT !.entries = DelKey(c.entries, k),
                                   !.misses = @ + 1],
               ret |-> None]
         ELSE [cache |-> [c EXCEPT !.hits = @ + 1], ret |-> e.value]
    ELSE [cache |-> [c EXCEPT !.misses = @ + 1], ret |-> None]

\* TTLCache.set
set_ttl_dropped(c, k, v, ttl, t) ==
    LET kept == IF Len(c.entries) >= c.max_size /\ k \notin KeysOf(c.entries)
                THEN evict_oldest(c.entries)
                ELSE c.entries
    IN [c EXCEPT !.entries = Store(kept, CacheEntry(k, v, t, 0))]
set(c, k, v, ttl, t) ==
    LET kept == IF Len(c.entries) >= c.max_size /\ k \notin KeysOf(c.entries)
                THEN evict_oldest(c.entries)
                ELSE c.entries
    IN [c EXCEPT !.entries = Store(kept, CacheEntry(k, v, t, ttl))]

\* TTLCache.clear
clear(c) == [c EXCEPT !.entries = << >>, !.hits = 0, !.misses = 0]

\* TTLCache.get_stats (hit_rate, a formatted percentage, is left out)
get_stats(c) ==
    [size |-> Len(c.entries), hits |-> c.hits, misses |-> c.misses,
     total_requests |-> c.hits + c.misses]

(***************************************************************************)
(* Strings are sequences of characters.  A hex digest is a string of one   *)
(* token, the digest; digests of different texts are different (collision  *)
(* resistance of SHA-256 and MD5 is assumed).                              *)
(***************************************************************************)
DigitChars == <<"0", "1", "2", "3", "4", "5", "6", "7", "8", "9">>

RECURSIVE IntStr(_)
IntStr(n) == IF n < 10 THEN <<DigitChars[n + 1]>>
             ELSE IntStr(n \div 10) \o <<DigitChars[(n % 10) + 1]>>

PyStr(text) == [type |-> "str", v |-> text]
PyInt(n) == [type |-> "int", v |-> n]

\* str(arg)
str(x) == IF x.type = "int" THEN IntStr(x.v) ELSE x.v

\* "|".join(parts)
RECURSIVE JoinBar(_)
JoinBar(parts) ==
    IF Len(parts) = 0 THEN << >>
    ELSE IF Len(parts) = 1 THEN parts[1]
    ELSE parts[1] \o <<"|">> \o JoinBar(Tail(parts))

hexdigest(alg, text) == <<[alg |-> alg, text |-> text]>>

\* generate_cache_key(*args, prefix): f"{prefix}:{hash_digest}" or the bare
\* digest; the digest has a fixed length and no ":", so the key determines
\* the pair (prefix, digest)
generate_cache_key(args, prefix) ==
    LET key_parts == [i \in 1..Len(args) |-> str(args[i])]
        combined == JoinBar(key_parts)
    IN [prefix |-> prefix, hash |-> hexdigest("sha256", combined)]

\* text.strip()
RECURSIVE LStrip(_)
LStrip(text) == IF Len(text) > 0 /\ Head(text) = " " THEN LStrip(Tail(text)) ELSE text
RECURSIVE RStrip(_)
RStrip(text) == IF Len(text) > 0 /\ text[Len(text)] = " "
                THEN RStrip(SubSeq(text, 1, Len(text) - 1)) ELSE text
strip(text) == RStrip(LStrip(text))

\* seq[-2:]
LastTwo(h) == IF Len(h) <= 2 THEN h ELSE SubSeq(h, Len(h) - 1, Len(h))

\* str(list of message dicts): one token per message between brackets
ReprList(h) == <<"[">> \o h \o <<"]">>

(***************************************************************************)
(* settings.py                                                             *)
(***************************************************************************)
CONTEXTUALIZED_QUERY_CACHE_TTL == 300
RAG_CACHE_TTL == 600
USER_CONTEXT_CACHE_TTL == 180
RAG_TOP_K == 2
ST_CACHE_TTL == 60

(***************************************************************************)
(* Inputs of the retrieval orchestrator and the behaviours of its          *)
(* collaborators                                                           *)
(***************************************************************************)
QueryChars == <<"a", "b", "c", "d", "e", "f">>
QueryTexts == {<<QueryChars[i]>> : i \in 1..NumQueries}

Message(i) == [role |-> IF i % 2 = 1 THEN "user" ELSE "assistant",
               content |-> <<QueryChars[((i - 1) % 6) + 1]>>]
Conversation == [i \in 1..MaxHistory |-> Message(i)]
\* the empty history and the tails of one conversation
Histories == {SubSeq(Conversation, i, MaxHistory) : i \in 1..(MaxHistory + 1)}

\* what the LLM endpoint does with the rewrite request
LLMFailures == {"connection_refused", "not_json", "http_error_json"}
LLMTexts == {<<" ", "o", "k", "?", " ">>, <<"w", "h", "a", "t">>}
LLMOutcomes == [kind : LLMFailures, text : {<< >>}] \cup [kind : {"text"}, text : LLMTexts]

\* what the vector store does: creating the client and collection,
\* collection.count(), collection.query()
ChromaOutcomes ==
    LET Outcome(i, r, n, q) == [init |-> i, count_raises |-> r, count |-> n, query |-> q]
    IN {Outcome("fail", FALSE, 0, "ok"), Outcome("ok", TRUE, 0, "ok"),
        Outcome("ok", FALSE, 0, "ok")}
       \cup {Outcome("ok", FALSE, n, q) : n \in 1..MaxDocs, q \in {"raise", "ok"}}

\* the (context, sources, results) tuple of query_knowledge_base
\* the triple: context (one chunk per document), sources, error descriptor
RagResult(n) == <<[i \in 1..n |-> i], {i : i \in 1..n}, "none">>
RagError(e) == <<<< >>, {}, e>>
\* the call did not return: an exception left the function
Raised == <<"RAISED">>

Min(a, b) == IF a < b THEN a ELSE b

\* what the dict holds under key k: the stored value and its timestamp
Lookup(entries, k) ==
    IF k \in KeysOf(entries)
    THEN [present |-> TRUE, value |-> EntryOf(entries, k).value,
          timestamp |-> EntryOf(entries, k).timestamp]
    ELSE [present |-> FALSE, value |-> None, timestamp |-> 0]

\* the same with a rewritten text of 3 characters accepted
contextualize_query_ge3(c, query, history, llm, t) ==
    IF Len(history) = 0
    THEN [cache |-> c, ret |-> query, collab |-> 0, failure |-> "none",
          key |-> None, raised |-> FALSE]
    ELSE
    LET history_snippet == ReprList(LastTwo(history))
        cache_key == generate_cache_key(<<PyStr(query), PyStr(history_snippet)>>,
                                        "ctx_query")
        g == get(c, cache_key, t)
    IN  IF g.ret # None
        THEN [cache |-> g.cache, ret |-> g.ret, collab |-> 0, failure |-> "none",
              key |-> cache_key, raised |-> FALSE]
        ELSE IF llm.kind \in {"connection_refused", "not_json"}
        THEN \* _http_session.post or response.json() raises: except branch
             [cache |-> g.cache, ret |-> query, collab |-> 1, failure |-> llm.kind,
              key |-> cache_key, raised |-> FALSE]
        ELSE \* a JSON body; an error body has no "response": .get gives ""
             LET rewritten == IF llm.kind = "http_error_json" THEN << >>
                              ELSE strip(llm.text)
                 result == IF Len(rewritten) >= 3 THEN rewritten ELSE query
             IN [cache |-> set(g.cache, cache_key, result,
                               CONTEXTUALIZED_QUERY_CACHE_TTL, t),
                 ret |-> result, collab |-> 1,
                 failure |-> IF llm.kind = "http_error_json" THEN llm.kind ELSE "none",
                 key |-> cache_key, raised |-> FALSE]

\* contextualize_query(query, history) on the contextualized-query cache c
\* at time t, the LLM behaving as llm: the cache after, the returned text,
\* the number of LLM calls made, and the failure met
contextualize_query(c, query, history, llm, t) ==
    IF Len(history) = 0
    THEN [cache |-> c, ret |-> query, collab |-> 0, failure |-> "none",
          key |-> None, raised |-> FALSE]
    ELSE
    LET history_snippet == ReprList(LastTwo(history))
        cache_key == generate_cache_key(<<PyStr(query), PyStr(history_snippet)>>,
                                        "ctx_query")
        g == get(c, cache_key, t)
    IN  IF g.ret # None
        THEN [cache |-> g.cache, ret |-> g.ret, collab |-> 0, failure |-> "none",
              key |-> cache_key, raised |-> FALSE]
        ELSE IF llm.kind \in {"connection_refused", "not_json"}
        THEN \* _http_session.post or response.json() raises: except branch
             [cache |-> g.cache, ret |-> query, collab |-> 1, failure |-> llm.kind,
              key |-> cache_key, raised |-> FALSE]
        ELSE \* a JSON body; an error body has no "response": .get gives ""
             LET rewritten == IF llm.kind = "http_error_json" THEN << >>
                              ELSE strip(llm.text)
                 result == IF Len(rewritten) > 3 THEN rewritten ELSE query
             IN [cache |-> set(g.cache, cache_key, result,
                               CONTEXTUALIZED_QUERY_CACHE_TTL, t),
                 ret |-> result, collab |-> 1,
                 failure |-> IF llm.kind = "http_error_json" THEN llm.kind ELSE "none",
                 key |-> cache_key, raised |-> FALSE]

\* get_chroma_collection under @st.cache_resource: the first return value,
\* (collection, None) or (None, error), is kept for the process lifetime
get_chroma_collection(memo, init) == IF memo = "unset" THEN init ELSE memo

\* query_knowledge_base(query, top_k) on the RAG cache c at time t
query_knowledge_base(c, memo, query, top_k_arg, chroma, t) ==
    LET \* top_k or Config.RAG_TOP_K
        top_k == IF ~top_k_arg.given \/ top_k_arg.value = 0 THEN RAG_TOP_K
                 ELSE top_k_arg.value
        cache_key == generate_cache_key(<<PyStr(query), PyInt(top_k)>>, "rag")
        g == get(c, cache_key, t)
        coll == get_chroma_collection(memo, chroma.init)
        opened == IF memo = "unset" THEN 1 ELSE 0
    IN  IF g.ret # None
        THEN [cache |-> g.cache, memo |-> memo, ret |-> g.ret, collab |-> 0,
              failure |-> "none", key |-> cache_key, raised |-> FALSE]
        ELSE IF coll = "fail"
        THEN [cache |-> g.cache, memo |-> coll, ret |-> RagError("unavailable"),
              collab |-> opened, failure |-> "unavailable", key |-> cache_key,
              raised |-> FALSE]
        ELSE IF chroma.count_raises
        THEN \* collection.count() is outside the try block
             [cache |-> g.cache, memo |-> coll, ret |-> Raised,
              collab |-> opened + 1, failure |-> "count_exception",
              key |-> cache_key, raised |-> TRUE]
        ELSE IF chroma.count = 0
        THEN [cache |-> g.cache, memo |-> coll, ret |-> RagError("Database is empty"),
              collab |-> opened + 1, failure |-> "empty", key |-> cache_key,
              raised |-> FALSE]
        ELSE IF chroma.query = "raise"
        THEN [cache |-> g.cache, memo |-> coll, ret |-> RagError("query failed"),
              collab |-> opened + 2, failure |-> "query_exception",
              key |-> cache_key, raised |-> FALSE]
        ELSE LET result == RagResult(Min(top_k, chroma.count))
             IN [cache |-> set(g.cache, cache_key, result, RAG_CACHE_TTL, t),
                 memo |-> coll, ret |-> result, collab |-> opened + 2,
                 failure |-> "none", key |-> cache_key, raised |-> FALSE]

(***************************************************************************)
(* User data on disk, Streamlit's memo of decorated functions, and the     *)
(* context assembler                                                       *)
(***************************************************************************)
Stages == {<<QueryChars[i]>> : i \in 1..NumStages}

\* datetime.isoformat() and str(float) of a clock reading
isoformat(t) == <<"T">> \o IntStr(t)
float_str(t) == IntStr(t) \o <<".", "0">>

NoProfile == [exists |-> FALSE, last_updated |-> << >>, stage |-> << >>]
NoPulse == [exists |-> FALSE, content |-> << >>, mtime |-> 0]

\* get_user_profile_hash
get_user_profile_hash_no_mtime(prof, pul) ==
    LET hash_parts == IF prof.exists
                      THEN <<str(PyStr(prof.last_updated)), str(PyStr(prof.stage))>>
                      ELSE << >>
    IN IF Len(hash_parts) = 0
       THEN hexdigest("md5", << >>)
       ELSE hexdigest("md5", JoinBar(hash_parts))
get_user_profile_hash(prof, pul) ==
    LET profile_parts == IF prof.exists
                         THEN <<str(PyStr(prof.last_updated)), str(PyStr(prof.stage))>>
                         ELSE << >>
        pulse_parts == IF pul.exists THEN <<float_str(pul.mtime)>> ELSE << >>
        hash_parts == profile_parts \o pulse_parts
    IN IF Len(hash_parts) = 0
       THEN hexdigest("md5", << >>)
       ELSE hexdigest("md5", JoinBar(hash_parts))

\* get_user_context_hash: the import of context_builder succeeds
get_user_context_hash(prof, pul) == get_user_profile_hash(prof, pul)

\* @st.cache_data(ttl=60): the value of the latest computation and its time
NoMemo == [valid |-> FALSE, value |-> << >>, at |-> 0]
MemoFresh(m, t) == m.valid /\ t < m.at + ST_CACHE_TTL
Memo(v, t) == [valid |-> TRUE, value |-> v, at |-> t]

\* load_pulse_history: the list read from the file, or the memoised list
load_pulse_history(lph, pul, t) ==
    IF MemoFresh(lph, t)
    THEN [lph |-> lph, value |-> lph.value]
    ELSE LET data == IF pul.exists THEN pul.content ELSE << >>
         IN [lph |-> Memo(data, t), value |-> data]

\* get_recent_pulse_context(days=7): a summary of the history (here the
\* history it was computed from; "" for no history), or the memoised summary
get_recent_pulse_context(rpc, lph, pul, t) ==
    IF MemoFresh(rpc, t)
    THEN [rpc |-> rpc, lph |-> lph, value |-> rpc.value]
    ELSE LET h == load_pulse_history(lph, pul, t)
         IN [rpc |-> Memo(h.value, t), lph |-> h.lph, value |-> h.value]

\* get_profile_context: session state first, the file as fallback
get_profile_context(sess, prof) ==
    LET p == IF sess.exists THEN sess ELSE prof
    IN IF p.exists THEN <<"S">> \o p.stage ELSE << >>

\* build_user_context(include_profile, include_recent_pulse): the sections
\* joined, "" when there is none
build_user_context(sess, prof, rpc, lph, pul, t) ==
    LET profile_ctx == get_profile_context(sess, prof)
        r == get_recent_pulse_context(rpc, lph, pul, t)
    IN [rpc |-> r.rpc, lph |-> r.lph,
        value |-> IF profile_ctx = << >> /\ r.value = << >>
                  THEN << >>
                  ELSE <<profile_ctx, r.value>>]

\* get_user_context_cached on the user-context cache c
get_user_context_cached(c, sess, prof, rpc, lph, pul, t) ==
    LET profile_hash == get_user_context_hash(prof, pul)
        cache_key == generate_cache_key(<<PyStr(profile_hash)>>, "user_ctx")
        g == get(c, cache_key, t)
    IN  IF g.ret # None
        THEN [cache |-> g.cache, rpc |-> rpc, lph |-> lph, ret |-> g.ret,
              collab |-> 0, key |-> cache_key]
        ELSE LET b == build_user_context(sess, prof, rpc, lph, pul, t)
             IN [cache |-> set(g.cache, cache_key, b.value,
                               USER_CONTEXT_CACHE_TTL, t),
                 rpc |-> b.rpc, lph |-> b.lph, ret |-> b.value,
                 collab |-> 1, key |-> cache_key]

(***************************************************************************)
(* State                                                                   *)
(***************************************************************************)
VARIABLES
    cache,      \* one TTLCache instance
    now,        \* the reading of datetime.now(), in seconds
    last,       \* the latest call on the cache: arguments and result
    getCalls,   \* history: get calls since construction or the latest clear
    written,    \* history: per key, the latest set whose entry is still stored
    \* threads calling into the one cache (SpecThreads)
    lock,       \* TTLCache._lock: the thread holding it, or NoThread
    pc,         \* per thread: its position inside the method it is running
    req,        \* per thread: the call it is running
    loc,        \* per thread: the method's local variables
    ret,        \* per thread: what its latest completed call returned
    seq,        \* history: the cache after the completed calls, run one at a
                \* time in the order of their lock release
    expect,     \* history: per thread, what that sequential run returned
    calls,      \* history: the number of calls begun
    \* the application: module-level caches, files, memos (SpecApp)
    ctxCache,   \* contextualized_query_cache
    ragCache,   \* rag_cache
    userCache,  \* user_context_cache
    chromaMemo, \* st.cache_resource of get_chroma_collection
    profile,    \* the profile file
    pulse,      \* the symptom-log file: entries and modification time
    sess,       \* st.session_state.user_profile of the session
    lphMemo,    \* st.cache_data of load_pulse_history
    rpcMemo,    \* st.cache_data of get_recent_pulse_context
    lastApp,    \* the latest application call: result and observations
    dirty,      \* history: the hashed user data state changed since the
                \* latest get_user_context_cached
    saved,      \* history: the number of entries saved
    appCalls,   \* history: the number of application calls made
    \* a save and a request running step by step (SpecUserRace)
    savePc,     \* the position of the running save_pulse_entry
    reqPc,      \* the position of the running get_user_context_cached
    reqLoc,     \* the request's local variables and what it returned
    committed,  \* history: the saves that have returned (SpecUserRace: their
                \* number; SpecSave: their entries)
    \* one call of a function without state (SpecKeys, SpecAnalyzer)
    fnIn,       \* the function called and its arguments
    fnOut       \* what it returned

cacheVars == <<cache, now>>
histVars == <<last, getCalls, written>>
thrVars == <<lock, pc, req, loc, ret, seq, expect, calls>>
raceVars == <<savePc, reqPc, reqLoc, committed>>
pureVars == <<fnIn, fnOut>>
appVars == <<ctxCache, ragCache, userCache, chromaMemo, profile, pulse, sess,
             lphMemo, rpcMemo, lastApp, dirty, saved, appCalls, raceVars, pureVars>>
vars == <<cacheVars, histVars, thrVars, appVars>>

NoStats == [size |-> 0, hits |-> 0, misses |-> 0, total_requests |-> 0]
NoWrite == [value |-> None, at |-> 0, ttl |-> 0]

\* The record of a call: its arguments, its result, and two observations of
\* the cache around it: prev, the pending write of the key before the call,
\* and removed, the keys stored before the call and no longer after it.
Call(op, k, v, ttl, res, st, prev, removed) ==
    [op |-> op, key |-> k, value |-> v, ttl |-> ttl, ret |-> res, stats |-> st,
     prev |-> prev, removed |-> removed]
NoCall(op) == Call(op, None, None, 0, None, NoStats, NoWrite, {})

\* history bookkeeping: a key whose entry is gone has no pending write
Forget(w, entries) == [k \in Keys |-> IF k \in KeysOf(entries) THEN w[k] ELSE NoWrite]

InitCache(sizes) ==
    /\ cache \in {TTLCache(n) : n \in sizes}
    /\ now = 0
    /\ last = NoCall("init")
    /\ getCalls = 0
    /\ written = [k \in Keys |-> NoWrite]

\* the threads, before any of them has called the cache
NoThread == 0
NoReq == [op |-> "none", key |-> None, value |-> None, ttl |-> 0]
NoLoc == [clock |-> 0, tmp |-> 0, found |-> None]
NoRet == [val |-> None, stats |-> NoStats]

InitThreads ==
    /\ lock = NoThread
    /\ pc = [t \in Threads |-> "idle"]
    /\ req = [t \in Threads |-> NoReq]
    /\ loc = [t \in Threads |-> NoLoc]
    /\ ret = [t \in Threads |-> NoRet]
    /\ seq = cache
    /\ expect = [t \in Threads |-> NoRet]
    /\ calls = 0

\* the latest application call, as its caller observes it: what it returned,
\* how many collaborator calls it made, the failure it met, whether an
\* exception left it, what its cache held under its key before the call,
\* and whether it changed the stored entries
NoAppCall == [fn |-> "init", ret |-> None, collab |-> 0, failure |-> "none",
              raised |-> FALSE, prev |-> Lookup(<< >>, None), dirty |-> "clean",
              stored |-> FALSE]
AppCall(fn, res, collab, failure, raised, prev, d, stored) ==
    [fn |-> fn, ret |-> res, collab |-> collab, failure |-> failure,
     raised |-> raised, prev |-> prev, dirty |-> d, stored |-> stored]
Other(fn) == AppCall(fn, None, 0, "none", FALSE, Lookup(<< >>, None), "clean", FALSE)
\* the call left under key k an entry that was not there before it
Fresh(before, after, k) ==
    Lookup(after, k).present /\ Lookup(after, k) # Lookup(before, k)
\* the user data state changed: by a save, whose hook clears the cache, or
\* by something outside the application
Changed(d, by, a, b) ==
    IF a = b THEN d ELSE IF d = "external" THEN d ELSE by

\* user data left by earlier runs of the application
OldProfile == [exists |-> TRUE, last_updated |-> isoformat(0), stage |-> <<QueryChars[1]>>]
OldPulse == [exists |-> TRUE, content |-> <<0>>, mtime |-> 0]
NoReqLoc == [key |-> None, value |-> << >>, base |-> 0, ret |-> None]

\* process start: empty caches, the session's profile loaded from the file
\* (config.init_session_state)
InitApp(data) ==
    /\ ctxCache = TTLCache(AppCacheSize)
    /\ ragCache = TTLCache(AppCacheSize)
    /\ userCache = TTLCache(UserCacheSize)
    /\ chromaMemo = "unset"
    /\ \E d \in data : profile = d[1] /\ pulse = d[2]
    /\ sess = profile
    /\ lphMemo = NoMemo
    /\ rpcMemo = NoMemo
    /\ lastApp = NoAppCall
    /\ dirty = "clean"
    /\ saved = 0
    /\ appCalls = 0
    /\ savePc = "idle"
    /\ reqPc = "idle"
    /\ reqLoc = NoReqLoc
    /\ committed = 0
    /\ fnIn = [fn |-> "none"]
    /\ fnOut = None

(***************************************************************************)
(* One action per TTLCache method, plus the passage of time               *)
(***************************************************************************)
Get(k) ==
    /\ getCalls < MaxGets
    /\ LET r == get(cache, k, now) IN
        /\ cache' = r.cache
        /\ last' = Call("get", k, None, 0, r.ret, NoStats, written[k],
                        KeysOf(cache.entries) \ KeysOf(r.cache.entries))
        /\ written' = Forget(written, r.cache.entries)
    /\ getCalls' = getCalls + 1
    /\ UNCHANGED <<now, thrVars, appVars>>

Set(k, v, ttl) ==
    /\ cache' = set(cache, k, v, ttl, now)
    /\ last' = Call("set", k, v, ttl, None, NoStats, written[k],
                    KeysOf(cache.entries) \ KeysOf(cache'.entries))
    /\ written' = Forget([written EXCEPT ![k] = [value |-> v, at |-> now, ttl |-> ttl]],
                         cache'.entries)
    /\ UNCHANGED <<now, getCalls, thrVars, appVars>>

Clear ==
    /\ cache' = clear(cache)
    /\ last' = Call("clear", None, None, 0, None, NoStats, NoWrite,
                    KeysOf(cache.entries) \ KeysOf(cache'.entries))
    /\ written' = Forget(written, cache'.entries)
    /\ getCalls' = 0
    /\ UNCHANGED <<now, thrVars, appVars>>

GetStats ==
    /\ last' = Call("get_stats", None, None, 0, None, get_stats(cache), NoWrite, {})
    /\ UNCHANGED <<cache, now, getCalls, written, thrVars, appVars>>

Tick ==
    /\ now < MaxTime
    /\ now' = now + 1
    /\ last' = NoCall("tick")
    /\ UNCHANGED <<cache, getCalls, written, thrVars, appVars>>

NextCache ==
    \/ \E k \in Keys : Get(k)
    \/ \E k \in Keys, v \in Values, ttl \in TTLs : Set(k, v, ttl)
    \/ Clear
    \/ GetStats
    \/ Tick

Init == InitCache(1..MaxSize) /\ InitThreads /\ InitApp({<<NoProfile, NoPulse>>})
Next == NextCache
Spec == Init /\ [][Next]_vars

InitAnySize == InitCache(0..MaxSize) /\ InitThreads /\ InitApp({<<NoProfile, NoPulse>>})
SpecAnySize == InitAnySize /\ [][Next]_vars

(***************************************************************************)
(* Threads.  Each method body runs inside "with self._lock"; the body is   *)
(* modelled statement by statement, so that whatever the lock does not     *)
(* exclude would show as an interleaving.                                  *)
(***************************************************************************)
Requests ==
    [op : {"get"}, key : Keys, value : {None}, ttl : {0}]
      \cup [op : {"set"}, key : Keys, value : Values, ttl : TTLs]
      \cup [op : {"clear", "get_stats"}, key : {None}, value : {None}, ttl : {0}]

\* threading.Lock: acquire succeeds only while nobody holds the lock
can_acquire_unlocked(l) == TRUE
can_acquire(l) == l = NoThread

FirstStep(op) ==
    CASE op = "get" -> "get_lookup"
      [] op = "set" -> "set_evict"
      [] op = "clear" -> "clear_map"
      [] op = "get_stats" -> "stats_total"

\* a thread calls a method of the cache and reaches its "with self._lock"
Invoke(t, r) ==
    /\ pc[t] = "idle"
    /\ calls < MaxCalls
    /\ calls' = calls + 1
    /\ req' = [req EXCEPT ![t] = r]
    /\ loc' = [loc EXCEPT ![t] = NoLoc]
    /\ pc' = [pc EXCEPT ![t] = "acquire"]
    /\ UNCHANGED <<cacheVars, histVars, appVars, lock, ret, seq, expect>>

Acquire(t) ==
    /\ pc[t] = "acquire"
    /\ can_acquire(lock)
    /\ lock' = t
    /\ pc' = [pc EXCEPT ![t] = FirstStep(req[t].op)]
    /\ UNCHANGED <<cacheVars, histVars, appVars, req, loc, ret, seq, expect, calls>>

\* get: "if key in self.cache ... if entry.is_expired(): del self.cache[key]"
GetLookup(t) ==
    /\ pc[t] = "get_lookup"
    /\ LET k == req[t].key IN
       IF k \in KeysOf(cache.entries)
       THEN LET e == EntryOf(cache.entries, k) IN
            IF is_expired(e, now)
            THEN /\ cache' = [cache EXCEPT !.entries = DelKey(cache.entries, k)]
                 /\ loc' = [loc EXCEPT ![t].clock = now]
                 /\ pc' = [pc EXCEPT ![t] = "miss_read"]
            ELSE /\ loc' = [loc EXCEPT ![t].clock = now, ![t].found = e.value]
                 /\ pc' = [pc EXCEPT ![t] = "hit_read"]
                 /\ UNCHANGED cache
       ELSE /\ loc' = [loc EXCEPT ![t].clock = now]
            /\ pc' = [pc EXCEPT ![t] = "miss_read"]
            /\ UNCHANGED cache
    /\ UNCHANGED <<now, histVars, appVars, lock, req, ret, seq, expect, calls>>

\* "self.misses += 1" / "self.hits += 1": a read, then a write
CounterRead(t) ==
    /\ pc[t] \in {"miss_read", "hit_read"}
    /\ loc' = [loc EXCEPT ![t].tmp =
                  IF pc[t] = "miss_read" THEN cache.misses ELSE cache.hits]
    /\ pc' = [pc EXCEPT ![t] = IF pc[t] = "miss_read" THEN "miss_write" ELSE "hit_write"]
    /\ UNCHANGED <<cacheVars, histVars, appVars, lock, req, ret, seq, expect, calls>>

CounterWrite(t) ==
    /\ pc[t] \in {"miss_write", "hit_write"}
    /\ cache' = IF pc[t] = "miss_write"
                THEN [cache EXCEPT !.misses = loc[t].tmp + 1]
                ELSE [cache EXCEPT !.hits = loc[t].tmp + 1]
    /\ ret' = [ret EXCEPT ![t] =
                  [val |-> IF pc[t] = "miss_write" THEN None ELSE loc[t].found,
                   stats |-> NoStats]]
    /\ pc' = [pc EXCEPT ![t] = "release"]
    /\ UNCHANGED <<now, histVars, appVars, lock, req, loc, seq, expect, calls>>

\* set: "if len(self.cache) >= self.max_size and key not in self.cache:
\*          self._evict_oldest()"
SetEvict(t) ==
    /\ pc[t] = "set_evict"
    /\ cache' = IF Len(cache.entries) >= cache.max_size
                   /\ req[t].key \notin KeysOf(cache.entries)
                THEN [cache EXCEPT !.entries = evict_oldest(cache.entries)]
                ELSE cache
    /\ pc' = [pc EXCEPT ![t] = "set_store"]
    /\ UNCHANGED <<now, histVars, appVars, lock, req, loc, ret, seq, expect, calls>>

\* set: "self.cache[key] = CacheEntry(value, datetime.now(), ttl_seconds)"
SetStore(t) ==
    /\ pc[t] = "set_store"
    /\ cache' = [cache EXCEPT !.entries =
                    Store(cache.entries,
                          CacheEntry(req[t].key, req[t].value, now, req[t].ttl))]
    /\ loc' = [loc EXCEPT ![t].clock = now]
    /\ ret' = [ret EXCEPT ![t] = NoRet]
    /\ pc' = [pc EXCEPT ![t] = "release"]
    /\ UNCHANGED <<now, histVars, appVars, lock, req, seq, expect, calls>>

\* clear: "self.cache.clear(); self.hits = 0; self.misses = 0"
ClearStep(t) ==
    /\ pc[t] \in {"clear_map", "clear_hits", "clear_misses"}
    /\ cache' = CASE pc[t] = "clear_map" -> [cache EXCEPT !.entries = << >>]
                  [] pc[t] = "clear_hits" -> [cache EXCEPT !.hits = 0]
                  [] pc[t] = "clear_misses" -> [cache EXCEPT !.misses = 0]
    /\ pc' = [pc EXCEPT ![t] = CASE pc[t] = "clear_map" -> "clear_hits"
                                 [] pc[t] = "clear_hits" -> "clear_misses"
                                 [] pc[t] = "clear_misses" -> "release"]
    /\ ret' = [ret EXCEPT ![t] = NoRet]
    /\ UNCHANGED <<now, histVars, appVars, lock, req, loc, seq, expect, calls>>

\* get_stats: "total_requests = self.hits + self.misses", then the dict
StatsTotal(t) ==
    /\ pc[t] = "stats_total"
    /\ loc' = [loc EXCEPT ![t].tmp = cache.hits + cache.misses]
    /\ pc' = [pc EXCEPT ![t] = "stats_dict"]
    /\ UNCHANGED <<cacheVars, histVars, appVars, lock, req, ret, seq, expect, calls>>

StatsDict(t) ==
    /\ pc[t] = "stats_dict"
    /\ ret' = [ret EXCEPT ![t] =
                  [val |-> None,
                   stats |-> [size |-> Len(cache.entries), hits |-> cache.hits,
                              misses |-> cache.misses,
                              total_requests |-> loc[t].tmp]]]
    /\ pc' = [pc EXCEPT ![t] = "release"]
    /\ UNCHANGED <<cacheVars, histVars, appVars, lock, req, loc, seq, expect, calls>>

\* the call r run as one step on cache c at clock reading clk
RunSeq(c, r, clk) ==
    CASE r.op = "get" ->
           LET g == get(c, r.key, clk)
           IN [cache |-> g.cache, ret |-> [val |-> g.ret, stats |-> NoStats]]
      [] r.op = "set" ->
           [cache |-> set(c, r.key, r.value, r.ttl, clk), ret |-> NoRet]
      [] r.op = "clear" -> [cache |-> clear(c), ret |-> NoRet]
      [] r.op = "get_stats" ->
           [cache |-> c, ret |-> [val |-> None, stats |-> get_stats(c)]]

\* leaving "with self._lock": the lock is released and the method returns
Release(t) ==
    /\ pc[t] = "release"
    /\ lock' = NoThread
    /\ pc' = [pc EXCEPT ![t] = "idle"]
    /\ LET r == RunSeq(seq, req[t], loc[t].clock) IN
        /\ seq' = r.cache
        /\ expect' = [expect EXCEPT ![t] = r.ret]
    /\ UNCHANGED <<cacheVars, histVars, appVars, req, loc, ret, calls>>

\* time passes, also while a thread is inside a method
TickThreads ==
    /\ now < MaxTime
    /\ now' = now + 1
    /\ UNCHANGED <<cache, histVars, thrVars, appVars>>

NextThreads ==
    \/ \E t \in Threads, r \in Requests : Invoke(t, r)
    \/ \E t \in Threads : Acquire(t)
    \/ \E t \in Threads : GetLookup(t)
    \/ \E t \in Threads : CounterRead(t)
    \/ \E t \in Threads : CounterWrite(t)
    \/ \E t \in Threads : SetEvict(t)
    \/ \E t \in Threads : SetStore(t)
    \/ \E t \in Threads : ClearStep(t)
    \/ \E t \in Threads : StatsTotal(t)
    \/ \E t \in Threads : StatsDict(t)
    \/ \E t \in Threads : Release(t)
    \/ TickThreads

SpecThreads == Init /\ [][NextThreads]_vars

(***************************************************************************)
(* The application: one action per entry point, each a whole call          *)
(***************************************************************************)
TopKArgs == {[given |-> FALSE, value |-> 0], [given |-> TRUE, value |-> 1]}
otherVars == <<cache, histVars, thrVars, raceVars, pureVars>>

\* the user data state that get_user_profile_hash reads
DataState(prof, pul) ==
    <<prof.exists, prof.last_updated, prof.stage, pul.exists, pul.mtime>>

ContextualizeQuery(q, h, llm) ==
    /\ appCalls < MaxAppCalls
    /\ LET r == contextualize_query(ctxCache, q, h, llm, now) IN
        /\ ctxCache' = r.cache
        /\ lastApp' = AppCall("contextualize_query", r.ret, r.collab, r.failure,
                              r.raised,
                              IF Len(h) = 0 THEN Lookup(<< >>, None)
                              ELSE Lookup(ctxCache.entries, r.key),
                              "clean",
                              Len(h) > 0 /\ Fresh(ctxCache.entries, r.cache.entries, r.key))
    /\ appCalls' = appCalls + 1
    /\ UNCHANGED <<now, otherVars, ragCache, userCache, chromaMemo, profile, pulse,
                   sess, lphMemo, rpcMemo, dirty, saved>>

QueryKnowledgeBase(q, k, chroma) ==
    /\ appCalls < MaxAppCalls
    /\ LET r == query_knowledge_base(ragCache, chromaMemo, q, k, chroma, now) IN
        /\ ragCache' = r.cache
        /\ chromaMemo' = r.memo
        /\ lastApp' = AppCall("query_knowledge_base", r.ret, r.collab, r.failure,
                              r.raised, Lookup(ragCache.entries, r.key), "clean",
                              Fresh(ragCache.entries, r.cache.entries, r.key))
    /\ appCalls' = appCalls + 1
    /\ UNCHANGED <<now, otherVars, ctxCache, userCache, profile, pulse, sess,
                   lphMemo, rpcMemo, dirty, saved>>

GetUserContextCached ==
    /\ appCalls < MaxAppCalls
    /\ LET r == get_user_context_cached(userCache, sess, profile, rpcMemo, lphMemo,
                                        pulse, now) IN
        /\ userCache' = r.cache
        /\ rpcMemo' = r.rpc
        /\ lphMemo' = r.lph
        /\ lastApp' = AppCall("get_user_context_cached", r.ret, r.collab, "none",
                              FALSE, Lookup(userCache.entries, r.key), dirty,
                              Fresh(userCache.entries, r.cache.entries, r.key))
    /\ appCalls' = appCalls + 1
    /\ dirty' = "clean"
    /\ UNCHANGED <<now, otherVars, ctxCache, ragCache, chromaMemo, profile, pulse,
                   sess, saved>>

\* invalidate_all_caches, as far as the user context reads what it clears
invalidate_all_caches(c) == [cache |-> clear(c), lph |-> NoMemo, rpc |-> NoMemo]

\* save_pulse_entry: validation, the list from load_pulse_history with the
\* entry appended, written to a temporary file and moved over the history
\* file, then invalidate_all_caches
SavePulseEntry(valid, written_ok) ==
    /\ appCalls < MaxAppCalls
    /\ saved < MaxEntries
    /\ LET h == load_pulse_history(lphMemo, pulse, now)
           history == Append(h.value, saved + 1)
           inv == invalidate_all_caches(userCache)
       IN IF ~valid
          THEN /\ lastApp' = AppCall("save_pulse_entry", <<FALSE>>, 0, "invalid",
                                     FALSE, Lookup(<< >>, None), "clean", FALSE)
               /\ UNCHANGED <<pulse, lphMemo, rpcMemo, userCache, saved, dirty>>
          ELSE IF ~written_ok
          THEN /\ lphMemo' = h.lph
               /\ lastApp' = AppCall("save_pulse_entry", <<FALSE>>, 0, "write_error",
                                     FALSE, Lookup(<< >>, None), "clean", FALSE)
               /\ UNCHANGED <<pulse, rpcMemo, userCache, saved, dirty>>
          ELSE /\ pulse' = [exists |-> TRUE, content |-> history, mtime |-> now]
               /\ lphMemo' = inv.lph
               /\ rpcMemo' = inv.rpc
               /\ userCache' = inv.cache
               /\ saved' = saved + 1
               /\ dirty' = Changed(dirty, "hooked", DataState(profile, pulse),
                                    DataState(profile, pulse'))
               /\ lastApp' = AppCall("save_pulse_entry", <<TRUE>>, 0, "none", FALSE,
                                     Lookup(<< >>, None), "clean", FALSE)
    /\ appCalls' = appCalls + 1
    /\ UNCHANGED <<now, otherVars, ctxCache, ragCache, chromaMemo, profile, sess>>

\* save_profile: the file, the session state, invalidate_user_context_cache
SaveProfile(stage) ==
    /\ appCalls < MaxAppCalls
    /\ profile' = [exists |-> TRUE, last_updated |-> isoformat(now), stage |-> stage]
    /\ sess' = profile'
    /\ userCache' = clear(userCache)
    /\ dirty' = Changed(dirty, "hooked", DataState(profile, pulse),
                         DataState(profile', pulse))
    /\ lastApp' = Other("save_profile")
    /\ appCalls' = appCalls + 1
    /\ UNCHANGED <<now, otherVars, ctxCache, ragCache, chromaMemo, pulse, lphMemo,
                   rpcMemo, saved>>

\* something outside the application rewrites the symptom-log file
TouchPulse ==
    /\ pulse.exists
    /\ pulse.mtime # now
    /\ pulse' = [pulse EXCEPT !.mtime = now]
    /\ dirty' = "external"
    /\ lastApp' = Other("touch")
    /\ UNCHANGED <<now, otherVars, ctxCache, ragCache, userCache, chromaMemo, profile,
                   sess, lphMemo, rpcMemo, saved, appCalls>>

\* the cache management hooks, on the three module-level caches
Caches == [ctx |-> ctxCache, rag |-> ragCache, user |-> userCache]
clear_all_caches(cs) ==
    [ctx |-> clear(cs.ctx), rag |-> clear(cs.rag), user |-> clear(cs.user)]
invalidate_user_context_cache(cs) == [cs EXCEPT !.user = clear(cs.user)]
invalidate_rag_cache_all_tiers(cs) ==
    [ctx |-> clear(cs.ctx), rag |-> clear(cs.rag), user |-> clear(cs.user)]
invalidate_rag_cache(cs) == [cs EXCEPT !.rag = clear(cs.rag)]

\* a hook call, and whether the caches it is to clear held an entry
Hook(fn, held) ==
    AppCall(fn, None, 0, "none", FALSE,
            [present |-> held, value |-> None, timestamp |-> 0], "clean", FALSE)
RunHook(fn, after, held) ==
    /\ ctxCache' = after.ctx
    /\ ragCache' = after.rag
    /\ userCache' = after.user
    /\ lastApp' = Hook(fn, held)
    /\ UNCHANGED <<now, otherVars, chromaMemo, profile, pulse, sess, lphMemo,
                   rpcMemo, dirty, saved, appCalls>>

InvalidateUserContextCache ==
    RunHook("invalidate_user_context_cache", invalidate_user_context_cache(Caches),
            Len(userCache.entries) > 0)

InvalidateRagCache ==
    RunHook("invalidate_rag_cache", invalidate_rag_cache(Caches),
            Len(ragCache.entries) > 0)

ClearAllCaches ==
    RunHook("clear_all_caches", clear_all_caches(Caches),
            Len(ctxCache.entries) + Len(ragCache.entries) + Len(userCache.entries) > 0)

\* the clock readings at which the application is called: process start,
\* each cache's ttl after it, and one Streamlit ttl past the longest
Instants == {0, USER_CONTEXT_CACHE_TTL, CONTEXTUALIZED_QUERY_CACHE_TTL, RAG_CACHE_TTL,
             RAG_CACHE_TTL + ST_CACHE_TTL}

TickApp ==
    /\ \E i \in Instants : i > now
    /\ now' = CHOOSE i \in Instants : i > now /\ \A j \in Instants : j > now => i <= j
    /\ lastApp' = Other("tick")
    /\ UNCHANGED <<otherVars, ctxCache, ragCache, userCache, chromaMemo, profile,
                   pulse, sess, lphMemo, rpcMemo, dirty, saved, appCalls>>

NextApp ==
    \/ \E q \in QueryTexts, h \in Histories, llm \in LLMOutcomes :
           ContextualizeQuery(q, h, llm)
    \/ \E q \in QueryTexts, k \in TopKArgs, chroma \in ChromaOutcomes :
           QueryKnowledgeBase(q, k, chroma)
    \/ GetUserContextCached
    \/ \E valid \in BOOLEAN, written_ok \in BOOLEAN : SavePulseEntry(valid, written_ok)
    \/ \E stage \in Stages : SaveProfile(stage)
    \/ TouchPulse
    \/ InvalidateUserContextCache
    \/ InvalidateRagCache
    \/ ClearAllCaches
    \/ TickApp

InitAppSpec ==
    /\ InitCache({MaxSize})
    /\ InitThreads
    /\ InitApp({<<NoProfile, NoPulse>>, <<OldProfile, OldPulse>>})
SpecApp == InitAppSpec /\ [][NextApp]_vars

(***************************************************************************)
(* A save_pulse_entry and a get_user_context_cached running in two         *)
(* threads of the one process, each statement by statement: the TTLCache   *)
(* lock makes a single get, set or clear atomic, nothing spans them        *)
(***************************************************************************)
retrievalVars == <<ctxCache, ragCache, chromaMemo, pureVars>>

\* save_pulse_entry up to shutil.move: validation and backup, the list from
\* load_pulse_history with the entry appended, the file replaced
SaveWrite ==
    /\ savePc = "idle"
    /\ saved < MaxEntries
    /\ LET h == load_pulse_history(lphMemo, pulse, now)
           history == Append(h.value, saved + 1)
       IN /\ lphMemo' = h.lph
          /\ pulse' = [exists |-> TRUE, content |-> history, mtime |-> now]
    /\ saved' = saved + 1
    /\ savePc' = "load_pulse_history.clear"
    /\ lastApp' = Other("save_pulse_entry")
    /\ UNCHANGED <<now, cache, histVars, thrVars, retrievalVars, userCache, profile,
                   sess, rpcMemo, dirty, appCalls, reqPc, reqLoc, committed>>

\* invalidate_all_caches, first statement
SaveClearLoad ==
    /\ savePc = "load_pulse_history.clear"
    /\ lphMemo' = NoMemo
    /\ savePc' = "invalidate_user_context_cache"
    /\ UNCHANGED <<now, cache, histVars, thrVars, retrievalVars, userCache, profile,
                   pulse, sess, rpcMemo, lastApp, dirty, saved, appCalls, reqPc,
                   reqLoc, committed>>

\* invalidate_user_context_cache
SaveClearUser ==
    /\ savePc = "invalidate_user_context_cache"
    /\ userCache' = clear(userCache)
    /\ savePc' = "get_recent_pulse_context.clear"
    /\ UNCHANGED <<now, cache, histVars, thrVars, retrievalVars, profile, pulse, sess,
                   lphMemo, rpcMemo, lastApp, dirty, saved, appCalls, reqPc, reqLoc,
                   committed>>

\* the context builder's memos cleared; save_pulse_entry returns (True, "")
SaveClearRecent ==
    /\ savePc = "get_recent_pulse_context.clear"
    /\ rpcMemo' = NoMemo
    /\ savePc' = "idle"
    /\ committed' = saved
    /\ UNCHANGED <<now, cache, histVars, thrVars, retrievalVars, userCache, profile,
                   pulse, sess, lphMemo, lastApp, dirty, saved, appCalls, reqPc,
                   reqLoc>>

\* get_user_context_cached up to the cache lookup
ReqLookup ==
    /\ reqPc = "idle"
    /\ appCalls < MaxAppCalls
    /\ LET profile_hash == get_user_context_hash(profile, pulse)
           cache_key == generate_cache_key(<<PyStr(profile_hash)>>, "user_ctx")
           g == get(userCache, cache_key, now)
       IN /\ userCache' = g.cache
          /\ IF g.ret # None
             THEN /\ reqPc' = "idle"
                  /\ reqLoc' = [key |-> None, value |-> << >>, base |-> committed,
                                ret |-> g.ret]
             ELSE /\ reqPc' = "build_user_context"
                  /\ reqLoc' = [key |-> <<cache_key>>, value |-> << >>,
                                base |-> committed, ret |-> None]
    /\ appCalls' = appCalls + 1
    /\ lastApp' = Other("get_user_context_cached")
    /\ UNCHANGED <<now, cache, histVars, thrVars, retrievalVars, profile, pulse, sess,
                   lphMemo, rpcMemo, dirty, saved, savePc, committed>>

\* build_user_context
ReqBuild ==
    /\ reqPc = "build_user_context"
    /\ LET b == build_user_context(sess, profile, rpcMemo, lphMemo, pulse, now)
       IN /\ rpcMemo' = b.rpc
          /\ lphMemo' = b.lph
          /\ reqLoc' = [reqLoc EXCEPT !.value = b.value]
    /\ reqPc' = "user_context_cache.set"
    /\ UNCHANGED <<now, cache, histVars, thrVars, retrievalVars, userCache, profile,
                   pulse, sess, lastApp, dirty, saved, appCalls, savePc, committed>>

\* user_context_cache.set and the return
ReqStore ==
    /\ reqPc = "user_context_cache.set"
    /\ userCache' = set(userCache, reqLoc.key[1], reqLoc.value,
                        USER_CONTEXT_CACHE_TTL, now)
    /\ reqLoc' = [reqLoc EXCEPT !.ret = reqLoc.value]
    /\ reqPc' = "idle"
    /\ UNCHANGED <<now, cache, histVars, thrVars, retrievalVars, profile, pulse, sess,
                   lphMemo, rpcMemo, lastApp, dirty, saved, appCalls, savePc,
                   committed>>

NextUserRace ==
    \/ SaveWrite
    \/ SaveClearLoad
    \/ SaveClearUser
    \/ SaveClearRecent
    \/ ReqLookup
    \/ ReqBuild
    \/ ReqStore
    \/ TickApp

SpecUserRace == InitAppSpec /\ [][NextUserRace]_vars

(***************************************************************************)
(* Functions without state, each called once on arguments drawn from a     *)
(* bounded set                                                             *)
(***************************************************************************)
InitPure == InitCache({MaxSize}) /\ InitThreads /\ InitApp({<<NoProfile, NoPulse>>})
statefulVars == <<cacheVars, histVars, thrVars, ctxCache, ragCache, userCache,
                  chromaMemo, profile, pulse, sess, lphMemo, rpcMemo, lastApp, dirty,
                  saved, appCalls, raceVars>>

\* arguments of generate_cache_key: texts with and without the separator,
\* an int and the text of its digits
KeyArgValues == <<PyStr(<<"a">>), PyStr(<<"b">>), PyStr(<<"a", "|", "b">>),
                  PyInt(1), PyStr(<<"1">>)>>
\* argument lists, each argument named by its place in KeyArgValues
KeyArgLists == UNION {[1..n -> DOMAIN KeyArgValues] : n \in 0..MaxArgs}
KeyArgs(a) == [i \in 1..Len(a) |-> KeyArgValues[a[i]]]
KeyPrefixes == {"", "rag", "ctx_query"}

GenerateCacheKey(a, p, b, q) ==
    /\ fnIn' = [fn |-> "generate_cache_key", args1 |-> a, prefix1 |-> p,
                args2 |-> b, prefix2 |-> q]
    /\ fnOut' = <<generate_cache_key(KeyArgs(a), p), generate_cache_key(KeyArgs(b), q)>>
    /\ UNCHANGED statefulVars

\* one pair of calls in a behaviour
NextKeys ==
    /\ fnIn.fn = "none"
    /\ \E a \in KeyArgLists, b \in KeyArgLists, p \in KeyPrefixes, q \in KeyPrefixes :
           GenerateCacheKey(a, p, b, q)

SpecKeys == InitPure /\ [][NextKeys]_vars

(***************************************************************************)
(* DeterministicAnalyzer.  Texts are sequences of characters, as above.    *)
(* A value read from an entry is a record: its Python type, its text (str) *)
(* and its number: the integer num * 10^exp (int), num tenths (float),     *)
(* 0 or 1 (bool).  Scores, which are floats, are counted in tenths.        *)
(***************************************************************************)
Value(type, text, num, exp) == [type |-> type, text |-> text, num |-> num, exp |-> exp]
NoneValue == Value("NoneType", << >>, 0, 0)
Integer(n) == Value("int", << >>, n, 0)
BigInt(n, e) == Value("int", << >>, n, e)
Float(tenths) == Value("float", << >>, tenths, 0)
Bool(b) == Value("bool", << >>, IF b THEN 1 ELSE 0, 0)
Str(text) == Value("str", text, 0, 0)
List == Value("list", << >>, 0, 0)
\* the key is not in the dict
Absent == Value("absent", << >>, 0, 0)

Restorative == <<"R", "e", "s", "t", "o", "r", "a", "t", "i", "v", "e">>
Fragmented == <<"F", "r", "a", "g", "m", "e", "n", "t", "e", "d">>
Awakening3AM == <<"3", " ", "A", "M", " ", "A", "w", "a", "k", "e", "n", "i", "n", "g">>
Cool == <<"C", "o", "o", "l">>
Warm == <<"W", "a", "r", "m">>
Flashing == <<"F", "l", "a", "s", "h", "i", "n", "g">>
Heavy == <<"H", "e", "a", "v", "y">>
Focused == <<"F", "o", "c", "u", "s", "e", "d">>
Neutral == <<"N", "e", "u", "t", "r", "a", "l">>
BrainFog == <<"B", "r", "a", "i", "n", " ", "F", "o", "g">>

SYMPTOM_SEVERITY_MAP ==
    <<[label |-> Restorative, score |-> 0], [label |-> Fragmented, score |-> 5],
      [label |-> Awakening3AM, score |-> 9],
      [label |-> Cool, score |-> 0], [label |-> Warm, score |-> 4],
      [label |-> Flashing, score |-> 7], [label |-> Heavy, score |-> 10],
      [label |-> Focused, score |-> 0], [label |-> Neutral, score |-> 4],
      [label |-> BrainFog, score |-> 9]>>

\* a minimum of 8 values
min_data_points_eight == 7 + 1

\* DeterministicAnalyzer.__init__
min_data_points == 7
score_map == SYMPTOM_SEVERITY_MAP

\* value in self.score_map, self.score_map[value]
InMap(map, text) == \E i \in DOMAIN map : map[i].label = text
MapGet(map, text) == map[CHOOSE i \in DOMAIN map : map[i].label = text].score

\* a float result, the None result, an exception leaving the call
Score(tenths) == [kind |-> "float", tenths |-> tenths, exc |-> "none"]
NoScore == [kind |-> "None", tenths |-> 0, exc |-> "none"]
Raises(exc) == [kind |-> "raise", tenths |-> 0, exc |-> exc]

\* the largest power of ten below sys.float_info.max (about 1.797 * 10^308)
DBL_MAX_10_EXP == 308

RECURSIVE Pow10(_)
Pow10(e) == IF e = 0 THEN 1 ELSE 10 * Pow10(e - 1)

\* float(n) of an int, for one-digit num when exp > 0: beyond the largest
\* double the conversion raises OverflowError
float_of_int(v) ==
    IF v.exp > DBL_MAX_10_EXP \/ (v.exp = DBL_MAX_10_EXP /\ v.num >= 2)
    THEN Raises("OverflowError")
    ELSE Score(10 * v.num * Pow10(v.exp))

IsDigit(c) == \E i \in DOMAIN DigitChars : DigitChars[i] = c
DigitOf(c) == (CHOOSE i \in DOMAIN DigitChars : DigitChars[i] = c) - 1
AllDigits(text) == \A i \in DOMAIN text : IsDigit(text[i])
RECURSIVE DigitsValue(_)
DigitsValue(text) ==
    IF Len(text) = 0 THEN 0
    ELSE 10 * DigitsValue(SubSeq(text, 1, Len(text) - 1)) + DigitOf(text[Len(text)])

\* the digits before and after the point: a decimal literal has a digit
ParseDigits(whole, frac) ==
    IF AllDigits(whole) /\ AllDigits(frac) /\ Len(whole) + Len(frac) > 0
    THEN Score(10 * DigitsValue(whole) + (IF Len(frac) = 0 THEN 0 ELSE DigitOf(frac[1])))
    ELSE Raises("ValueError")
\* the place of the first point, or one past the end
FirstDot(body) ==
    LET dots == {i \in DOMAIN body : body[i] = "."} IN
    IF dots = {} THEN Len(body) + 1 ELSE CHOOSE i \in dots : \A j \in dots : i <= j
ParseAt(body, dot) == ParseDigits(SubSeq(body, 1, dot - 1), SubSeq(body, dot + 1, Len(body)))
ParseUnsigned(body) == ParseAt(body, FirstDot(body))
Negated(r) == IF r.kind = "float" THEN Score(0 - r.tenths) ELSE r
ParseSigned(s) ==
    IF Len(s) > 0 /\ s[1] = "-" THEN Negated(ParseUnsigned(Tail(s)))
    ELSE IF Len(s) > 0 /\ s[1] = "+" THEN ParseUnsigned(Tail(s))
    ELSE ParseUnsigned(s)

\* float(text) of a str, for decimal literals of at most one fractional
\* digit: surrounding blanks, a sign, digits, a point, digits; anything else
\* raises ValueError
float_of_str(text) == ParseSigned(strip(text))

\* except ValueError: return None
NoneIfRaised(r) == IF r.kind = "raise" THEN NoScore ELSE r

\* _map_symptom_to_score(value)
map_symptom_to_score(value) ==
    IF value.type = "NoneType" THEN NoScore
    ELSE IF value.type \in {"int", "bool"}
    THEN \* isinstance(value, (int, float)): float(value)
         float_of_int(value)
    ELSE IF value.type = "float" THEN Score(value.num)
    ELSE IF value.type = "str"
    THEN IF InMap(score_map, value.text)
         THEN Score(10 * MapGet(score_map, value.text))
         ELSE \* try: float(value) except ValueError: None
              NoneIfRaised(float_of_str(value.text))
    ELSE NoScore

\* a pulse entry: the values under its symptom keys, and its notes
Entry(rest, climate, clarity, notes) ==
    [rest |-> rest, climate |-> climate, clarity |-> clarity, notes |-> notes]
\* symptom_key in e, e.get(symptom_key)
HasKey(e, k) == e[k].type # "absent"
DictGet(e, k) == IF HasKey(e, k) THEN e[k] ELSE NoneValue

RECURSIVE Sum(_)
Sum(s) == IF Len(s) = 0 THEN 0 ELSE Head(s) + Sum(Tail(s))

\* [v for v in values if v is not None], in tenths
NotNone(mapped) ==
    LET floats == SelectSeq(mapped, LAMBDA r : r.kind = "float") IN
    [i \in DOMAIN floats |-> floats[i].tenths]
\* an exception in the mapper leaves the comprehension
ScoresOf(mapped) ==
    [raises |-> \E i \in DOMAIN mapped : mapped[i].kind = "raise",
     values |-> NotNone(mapped)]
\* [self._map_symptom_to_score(v) for v in raw]
MappedScores(raw) == ScoresOf([i \in DOMAIN raw |-> map_symptom_to_score(raw[i])])

\* stats.linregress(x, values).slope for x = 0..n-1, as the fraction
\* num / (10 * den): the values are in tenths
linregress(values) ==
    LET n == Len(values)
        sx == Sum([i \in 1..n |-> i - 1])
        sxx == Sum([i \in 1..n |-> (i - 1) * (i - 1)])
        sy == Sum(values)
        sxy == Sum([i \in 1..n |-> (i - 1) * values[i]])
    IN  [num |-> n * sxy - sx * sy, den |-> n * sxx - sx * sx]

\* the same with thresholds of 0.5
trend_of_slope_half(slope) ==
    IF 2 * slope.num > 10 * slope.den THEN "worsening"
    ELSE IF 2 * slope.num < 0 - 10 * slope.den THEN "improving"
    ELSE "stable"

\* slope > 0.05, slope < -0.05 (num / (10 * den) > 1/20, den > 0)
trend_of_slope(slope) ==
    IF 2 * slope.num > slope.den THEN "worsening"
    ELSE IF 2 * slope.num < 0 - slope.den THEN "improving"
    ELSE "stable"

NoStatistics == [kind |-> "None", count |-> 0, trend |-> "none", slope |-> [num |-> 0, den |-> 1],
                 exc |-> "none"]
SymptomStatistics(count, slope) ==
    [kind |-> "SymptomStatistics", count |-> count, trend |-> trend_of_slope(slope),
     slope |-> slope, exc |-> "none"]

\* raw_values = [e.get(symptom_key) for e in entries if symptom_key in e]
RawValuesOf(entries, symptom_key) ==
    LET having == SelectSeq(entries, LAMBDA e : HasKey(e, symptom_key)) IN
    [i \in DOMAIN having |-> DictGet(having[i], symptom_key)]

\* the statistics of the mapped values: insufficient data, or the record's
\* trend and trend_slope
StatisticsOf(m) ==
    IF m.raises THEN [NoStatistics EXCEPT !.kind = "raise", !.exc = "OverflowError"]
    ELSE IF Len(m.values) < min_data_points THEN NoStatistics
    ELSE SymptomStatistics(Len(m.values), linregress(m.values))

\* analyze_symptom_statistics(entries, symptom_key)
analyze_symptom_statistics(entries, symptom_key) ==
    StatisticsOf(MappedScores(RawValuesOf(entries, symptom_key)))

(***************************************************************************)
(* The analyzer's inputs                                                   *)
(***************************************************************************)
Garbage == <<"g", "a", "r", "b", "a", "g", "e">>
Labels == {SYMPTOM_SEVERITY_MAP[i].label : i \in DOMAIN SYMPTOM_SEVERITY_MAP}
RawValues ==
    {NoneValue, List, Bool(TRUE), Bool(FALSE), Float(35), BigInt(1, 400)}
    \cup {Integer(n) : n \in 0..10}
    \cup {Str(l) : l \in Labels}
    \cup {Str(t) : t \in {Garbage, << >>, <<"8">>, <<"2", ".", "5">>, <<" ", "8", " ">>,
                          <<"-", "1">>, <<"8", ".">>, <<".", "5">>, <<".">>,
                          <<"1", ".", "2", ".", "3">>, <<"8", "x">>}}

SymptomKeys == {"rest", "climate", "clarity"}
KeyLabels(k) ==
    IF k = "rest" THEN {Restorative, Fragmented, Awakening3AM}
    ELSE IF k = "climate" THEN {Cool, Warm, Flashing, Heavy}
    ELSE {Focused, Neutral, BrainFog}
NoNotes == Str(<< >>)
BlankEntry == Entry(Absent, Absent, Absent, NoNotes)
EntryWith(k, v) == [BlankEntry EXCEPT ![k] = v]

\* values that yield no score: the key missing, null, an unrecognized text
InvalidValues == {Absent, NoneValue, Str(Garbage)}
\* entries of a low label, a high label and an invalid value in every order
Shapes == UNION {[1..n -> {"lo", "hi", "bad"}] : n \in 0..MaxLen}
MixedSeries(shape, bad) ==
    [i \in DOMAIN shape |->
        EntryWith("rest", IF shape[i] = "lo" THEN Str(Restorative)
                          ELSE IF shape[i] = "hi" THEN Str(Awakening3AM)
                          ELSE bad)]
\* k entries of one label followed by k of another
StepSeries(key, k, first, second) ==
    [i \in 1..(2 * k) |-> EntryWith(key, Str(IF i <= k THEN first ELSE second))]

\* note.lower(), keyword in note
UpperChars == <<"A", "B", "C", "D", "E", "F", "G", "H", "I", "J", "K", "L", "M",
                "N", "O", "P", "Q", "R", "S", "T", "U", "V", "W", "X", "Y", "Z">>
LowerChars == <<"a", "b", "c", "d", "e", "f", "g", "h", "i", "j", "k", "l", "m",
                "n", "o", "p", "q", "r", "s", "t", "u", "v", "w", "x", "y", "z">>
lower(text) ==
    [i \in DOMAIN text |->
        IF \E u \in DOMAIN UpperChars : UpperChars[u] = text[i]
        THEN LowerChars[CHOOSE u \in DOMAIN UpperChars : UpperChars[u] = text[i]]
        ELSE text[i]]
Contains(text, keyword) ==
    \E i \in 0..(Len(text) - Len(keyword)) :
        SubSeq(text, i + 1, i + Len(keyword)) = keyword

concerning_keywords ==
    <<<<"u", "n", "b", "e", "a", "r", "a", "b", "l", "e">>,
      <<"e", "m", "e", "r", "g", "e", "n", "c", "y">>,
      <<"e", "x", "t", "r", "e", "m", "e">>,
      <<"c", "a", "n", "'", "t">>,
      <<"t", "e", "r", "r", "i", "b", "l", "e">>,
      <<"a", "w", "f", "u", "l">>>>

\* entries[-7:], entries[-14:-7]
LastWeek(entries) == SubSeq(entries, Len(entries) - 6, Len(entries))
WeekBefore(entries) == SubSeq(entries, Len(entries) - 13, Len(entries) - 7)

\* the mapped, non-None scores of one symptom over a week
WeekScores(week, key) == MappedScores([i \in DOMAIN week |-> DictGet(week[i], key)])

\* the same with a mean of exactly 7 counted as severe
MeanAtLeast7(values) == Len(values) > 0 /\ Sum(values) >= 70 * Len(values)

\* values and np.mean(values) > 7, in tenths
MeanAbove7(values) == Len(values) > 0 /\ Sum(values) > 70 * Len(values)

\* np.mean(values) if values else 0, as the fraction sum / (10 * n)
MeanOrZero(values) ==
    IF Len(values) > 0 THEN [sum |-> Sum(values), n |-> Len(values)]
    ELSE [sum |-> 0, n |-> 1]

\* the pairs of means of up to 7 label scores of "rest" (0, 5, 9) whose
\* float64 difference is above 2 while their exact difference is 2:
\* 29/7 - 15/7 is 2.0000000000000004
RoundedAboveTwo ==
    {<<[sum |-> 290, n |-> 7], [sum |-> 150, n |-> 7]>>,
     <<[sum |-> 380, n |-> 7], [sum |-> 240, n |-> 7]>>,
     <<[sum |-> 500, n |-> 6], [sum |-> 190, n |-> 3]>>,
     <<[sum |-> 500, n |-> 6], [sum |-> 380, n |-> 6]>>}
\* recent_rest - prev_rest > 2 in float64
DifferenceAbove2(recent_rest, prev_rest) ==
    LET diff == recent_rest.sum * prev_rest.n - prev_rest.sum * recent_rest.n
        two == 20 * recent_rest.n * prev_rest.n
    IN  \/ diff > two
        \/ diff = two /\ <<recent_rest, prev_rest>> \in RoundedAboveTwo

InsufficientData ==
    [kind |-> "dict", level |-> "insufficient_data", flags |-> << >>, score |-> 0,
     exc |-> "none"]

\* risk_score += n beside each flags.append
FlagPoints(flag) ==
    CASE flag = "persistent_poor_sleep" -> 2
      [] flag = "severe_hot_flashes" -> 2
      [] flag = "severe_brain_fog" -> 1
      [] flag = "rapid_deterioration" -> 3
      [] flag = "multiple_severe_symptoms" -> 2
      [] flag = "concerning_user_notes" -> 1

HasKeyword(note) ==
    \E k \in DOMAIN concerning_keywords : Contains(note, concerning_keywords[k])
\* entry.get("notes", "").lower()
Concerning(e) == HasKeyword(lower(IF HasKey(e, "notes") THEN e.notes.text ELSE << >>))

\* the same without the break: one flag for every concerning note
concerning_notes_every(recent) ==
    LET hits == SelectSeq(recent, Concerning) IN
    [i \in DOMAIN hits |-> "concerning_user_notes"]

\* Flag 4: the loop over the week's notes, left at the first match
concerning_notes(recent) ==
    IF \E i \in DOMAIN recent : Concerning(recent[i])
    THEN <<"concerning_user_notes">> ELSE << >>

\* the same with "high" from a score above 6
classify_risk_above(risk_score) ==
    IF risk_score > 6 THEN "high"
    ELSE IF risk_score >= 3 THEN "moderate"
    ELSE "low"

\* Classify risk level
classify_risk(risk_score) ==
    IF risk_score >= 6 THEN "high"
    ELSE IF risk_score >= 3 THEN "moderate"
    ELSE "low"

\* Flag 1: persistent severe symptoms
SevereFlags(rest_values, climate_values, clarity_values) ==
    (IF MeanAbove7(rest_values) THEN <<"persistent_poor_sleep">> ELSE << >>)
    \o (IF MeanAbove7(climate_values) THEN <<"severe_hot_flashes">> ELSE << >>)
    \o (IF MeanAbove7(clarity_values) THEN <<"severe_brain_fog">> ELSE << >>)
\* Flag 2: rapid deterioration
RapidFlags(entries, rest_values) ==
    IF /\ Len(entries) >= 14
       /\ DifferenceAbove2(MeanOrZero(rest_values),
                           MeanOrZero(WeekScores(WeekBefore(entries), "rest").values))
    THEN <<"rapid_deterioration">> ELSE << >>
\* Flag 3: multiple severe symptoms
ClusterFlags(rest_values, climate_values, clarity_values) ==
    LET severe_count == (IF MeanAbove7(rest_values) THEN 1 ELSE 0)
                        + (IF MeanAbove7(climate_values) THEN 1 ELSE 0)
                        + (IF MeanAbove7(clarity_values) THEN 1 ELSE 0)
    IN  IF severe_count >= 2 THEN <<"multiple_severe_symptoms">> ELSE << >>
RiskFlags(entries, recent, rest_values, climate_values, clarity_values) ==
    SevereFlags(rest_values, climate_values, clarity_values)
    \o RapidFlags(entries, rest_values)
    \o ClusterFlags(rest_values, climate_values, clarity_values)
    \o concerning_notes(recent)
RiskOfWeek(entries, recent) ==
    RiskFlags(entries, recent, WeekScores(recent, "rest").values,
              WeekScores(recent, "climate").values, WeekScores(recent, "clarity").values)
RiskResult(flags, risk_score) ==
    [kind |-> "dict", level |-> classify_risk(risk_score), flags |-> flags,
     score |-> risk_score, exc |-> "none"]
RiskScored(flags) == RiskResult(flags, Sum([i \in DOMAIN flags |-> FlagPoints(flags[i])]))

\* what leaves the method before it returns: an OverflowError of the mapper
\* on a value of the last 7 entries or, with 14 entries, on a rest value of
\* the 7 before; an AttributeError of .lower() on a note that is not a text,
\* when the loop reaches it
MapperRaises(entries) ==
    \/ \E key \in {"rest", "climate", "clarity"} : WeekScores(LastWeek(entries), key).raises
    \/ Len(entries) >= 14 /\ WeekScores(WeekBefore(entries), "rest").raises
NoteRaises(recent) ==
    \E i \in DOMAIN recent :
        /\ HasKey(recent[i], "notes")
        /\ recent[i].notes.type # "str"
        /\ \A j \in 1..(i - 1) : ~Concerning(recent[j])
RiskRaise(exc) == [InsufficientData EXCEPT !.kind = "raise", !.exc = exc]

\* assess_risk_level(entries): level, flags and score
assess_risk_level(entries) ==
    IF Len(entries) < 7 THEN InsufficientData
    ELSE IF MapperRaises(entries) THEN RiskRaise("OverflowError")
    ELSE IF NoteRaises(LastWeek(entries)) THEN RiskRaise("AttributeError")
    ELSE RiskScored(RiskOfWeek(entries, LastWeek(entries)))

\* a week of entries: hi entries of the worst label of each symptom, then
\* mid entries of the middle one, the others of the best one or without
\* the key
WeekShapes ==
    {s \in [hi : 0..7, mid : 0..7, fill : {"lo", "absent"}] : s.hi + s.mid <= 7}
ShapeValue(shape, i, worst, middle, best) ==
    IF i <= shape.hi THEN Str(worst)
    ELSE IF i <= shape.hi + shape.mid THEN Str(middle)
    ELSE IF shape.fill = "lo" THEN Str(best) ELSE Absent
RestValue(shape, i) == ShapeValue(shape, i, Awakening3AM, Fragmented, Restorative)
ClimateValue(shape, i) == ShapeValue(shape, i, Heavy, Flashing, Cool)
ClarityValue(shape, i) == ShapeValue(shape, i, BrainFog, Neutral, Focused)
Calm == [hi |-> 0, mid |-> 0, fill |-> "lo"]

Unbearable == <<"I", " ", "f", "e", "e", "l", " ", "u", "n", "b", "e", "a", "r", "a", "b", "l", "e",
                " ", "p", "a", "i", "n">>
Emergency == <<"E", "M", "E", "R", "G", "E", "N", "C", "Y">>
Fine == <<"f", "i", "n", "e">>
\* the notes of a week
NoteWeeks ==
    {[i \in 1..7 |-> NoNotes],
     [i \in 1..7 |-> Absent],
     [i \in 1..7 |-> Str(Fine)],
     [i \in 1..7 |-> IF i = 7 THEN Str(Unbearable) ELSE NoNotes],
     [i \in 1..7 |-> IF i = 1 THEN Str(Emergency) ELSE NoNotes],
     [i \in 1..7 |-> IF i \in {2, 5, 7} THEN Str(Unbearable) ELSE Str(Fine)]}

Week(rest, climate, clarity, notes) ==
    [i \in 1..7 |-> Entry(RestValue(rest, i), ClimateValue(climate, i),
                          ClarityValue(clarity, i), notes[i])]
QuietWeek == Week(Calm, Calm, Calm, [i \in 1..7 |-> NoNotes])
\* the last n entries of a history that ends with the weeks prev and recent
History(n, prev, recent) ==
    LET older == [i \in 1..(IF n > 14 THEN n - 14 ELSE 0) |-> QuietWeek[1]]
        full == older \o prev \o recent
    IN  SubSeq(full, Len(full) - n + 1, Len(full))

SevereShapes ==
    {Calm, [hi |-> 7, mid |-> 0, fill |-> "lo"], [hi |-> 0, mid |-> 7, fill |-> "lo"],
     [hi |-> 5, mid |-> 0, fill |-> "lo"], [hi |-> 6, mid |-> 0, fill |-> "lo"],
     [hi |-> 1, mid |-> 0, fill |-> "absent"],
     [hi |-> 0, mid |-> 0, fill |-> "absent"]}

(***************************************************************************)
(* The analyzer's methods, one call in a behaviour                         *)
(***************************************************************************)
MapSymptomToScore(value) ==
    /\ fnIn' = [fn |-> "_map_symptom_to_score", value |-> value]
    /\ fnOut' = map_symptom_to_score(value)
    /\ UNCHANGED statefulVars

AnalyzeSymptomStatistics(entries, symptom_key) ==
    /\ fnIn' = [fn |-> "analyze_symptom_statistics", entries |-> entries,
                symptom_key |-> symptom_key]
    /\ fnOut' = analyze_symptom_statistics(entries, symptom_key)
    /\ UNCHANGED statefulVars

AssessRiskLevel(entries) ==
    /\ fnIn' = [fn |-> "assess_risk_level", entries |-> entries]
    /\ fnOut' = assess_risk_level(entries)
    /\ UNCHANGED statefulVars

NextAnalyzer ==
    /\ fnIn.fn = "none"
    /\ \/ \E value \in RawValues : MapSymptomToScore(value)
       \/ \E shape \in Shapes, bad \in InvalidValues :
              AnalyzeSymptomStatistics(MixedSeries(shape, bad), "rest")
       \/ \E key \in SymptomKeys, k \in 1..MaxK :
              \E first \in KeyLabels(key), second \in KeyLabels(key) :
                  AnalyzeSymptomStatistics(StepSeries(key, k, first, second), key)
       \/ \E n \in 0..MaxDays, prev \in WeekShapes, recent \in WeekShapes :
              AssessRiskLevel(History(n, Week(prev, Calm, Calm, [i \in 1..7 |-> NoNotes]),
                                      Week(recent, Calm, Calm, [i \in 1..7 |-> NoNotes])))
       \/ \E n \in {7, MaxDays}, prev \in {Calm, [Calm EXCEPT !.fill = "absent"]},
             rest \in SevereShapes, climate \in SevereShapes, clarity \in SevereShapes,
             notes \in NoteWeeks :
              AssessRiskLevel(History(n, Week(prev, Calm, Calm, [i \in 1..7 |-> NoNotes]),
                                      Week(rest, climate, clarity, notes)))
SpecAnalyzer == InitPure /\ [][NextAnalyzer]_vars

(***************************************************************************)
(* Pattern detection.  Scores are in tenths, as above.  A PatternAnalysis  *)
(* is modelled by its cycle flags and confidences (in thousandths), the    *)
(* keys of its correlations, the trend direction and the two lists of      *)
(* dates; the correlation coefficients and trend_strength, rounded         *)
(* numbers that no branch reads, are left out.                             *)
(***************************************************************************)
\* an entry with a "timestamp" key
Stamped(e, timestamp) ==
    [rest |-> e.rest, climate |-> e.climate, clarity |-> e.clarity, notes |-> e.notes,
     timestamp |-> timestamp]
TimestampOf(e) == IF "timestamp" \in DOMAIN e THEN e.timestamp ELSE Absent

Date(year, month, day) ==
    [kind |-> "date", year |-> year, month |-> month, day |-> day, exc |-> "none"]
NoDate(exc) == [kind |-> "raise", year |-> 0, month |-> 0, day |-> 0, exc |-> exc]

DaysIn(year, month) ==
    IF month = 2
    THEN IF year % 4 = 0 /\ (year % 100 # 0 \/ year % 400 = 0) THEN 29 ELSE 28
    ELSE IF month \in {4, 6, 9, 11} THEN 30 ELSE 31
CheckDate(year, month, day) ==
    IF year >= 1 /\ month \in 1..12 /\ day >= 1 /\ day <= DaysIn(year, month)
    THEN Date(year, month, day)
    ELSE NoDate("ValueError")
\* the date part, "YYYY-MM-DD"
ParseDate(text) ==
    IF /\ Len(text) = 10
       /\ text[5] = "-"
       /\ text[8] = "-"
       /\ AllDigits(SubSeq(text, 1, 4))
       /\ AllDigits(SubSeq(text, 6, 7))
       /\ AllDigits(SubSeq(text, 9, 10))
    THEN CheckDate(DigitsValue(SubSeq(text, 1, 4)), DigitsValue(SubSeq(text, 6, 7)),
                   DigitsValue(SubSeq(text, 9, 10)))
    ELSE NoDate("ValueError")
\* the time part, "HH:MM" or "HH:MM:SS"
TimeOk(text) ==
    /\ Len(text) \in {5, 8}
    /\ text[3] = ":"
    /\ AllDigits(SubSeq(text, 1, 2))
    /\ AllDigits(SubSeq(text, 4, 5))
    /\ DigitsValue(SubSeq(text, 1, 2)) < 24
    /\ DigitsValue(SubSeq(text, 4, 5)) < 60
    /\ Len(text) = 8 =>
          /\ text[6] = ":"
          /\ AllDigits(SubSeq(text, 7, 8))
          /\ DigitsValue(SubSeq(text, 7, 8)) < 60
\* datetime.fromisoformat(date_string): a date, or a date, one separator
\* character and a time (fractions of a second and offsets are not modelled)
fromisoformat(value) ==
    IF value.type # "str" THEN NoDate("TypeError")
    ELSE IF Len(value.text) = 10 THEN ParseDate(value.text)
    ELSE IF Len(value.text) >= 12 /\ TimeOk(SubSeq(value.text, 12, Len(value.text)))
    THEN ParseDate(SubSeq(value.text, 1, 10))
    ELSE NoDate("ValueError")

ZeroPad(digits, width) == [i \in 1..(width - Len(digits)) |-> "0"] \o digits
\* .strftime("%Y-%m-%d")
strftime(d) ==
    ZeroPad(IntStr(d.year), 4) \o <<"-">> \o ZeroPad(IntStr(d.month), 2)
        \o <<"-">> \o ZeroPad(IntStr(d.day), 2)

\* try: date = datetime.fromisoformat(entries[i]["timestamp"]).strftime(...)
\* except (KeyError, ValueError, IndexError): pass
Dated(d) ==
    IF d.kind = "date" THEN [kind |-> "date", text |-> strftime(d), exc |-> "none"]
    ELSE IF d.exc \in {"KeyError", "ValueError", "IndexError"}
    THEN [kind |-> "pass", text |-> << >>, exc |-> "none"]
    ELSE [kind |-> "raise", text |-> << >>, exc |-> d.exc]
EntryDate(e) ==
    IF TimestampOf(e).type = "absent" THEN Dated(NoDate("KeyError"))
    ELSE Dated(fromisoformat(TimestampOf(e)))

\* the dates appended for the indices found, unless a conversion raises
NoDates == [raises |-> FALSE, dates |-> << >>]
Collected(dated) ==
    [raises |-> \E k \in DOMAIN dated : dated[k].kind = "raise",
     dates |-> [k \in DOMAIN SelectSeq(dated, LAMBDA x : x.kind = "date") |->
                   SelectSeq(dated, LAMBDA x : x.kind = "date")[k].text]]
DatesOf(entries, found) == Collected([k \in DOMAIN found |-> EntryDate(entries[found[k]])])
\* dates[:limit]
FirstDates(r, limit) == [r EXCEPT !.dates = SubSeq(r.dates, 1, Min(limit, Len(r.dates)))]

\* default = 5: the midpoint that replaces None
default == 5
WithDefault(mapped) ==
    [raises |-> \E i \in DOMAIN mapped : mapped[i].kind = "raise",
     values |-> [i \in DOMAIN mapped |->
                    IF mapped[i].kind = "float" THEN mapped[i].tenths ELSE 10 * default]]
get_mapped_values(entries, key) ==
    WithDefault([i \in DOMAIN entries |-> map_symptom_to_score(DictGet(entries[i], key))])

Abs(x) == IF x < 0 THEN 0 - x ELSE x

\* values - np.mean(values), times len(values)
Centered(values) == [i \in DOMAIN values |-> Len(values) * values[i] - Sum(values)]
\* the autocorrelation at a lag (of the centered values)
Autocorr(d, lag) == Sum([i \in 1..(Len(d) - lag) |-> d[i] * d[i + lag]])

\* round(a / b, 3) in thousandths, for 0 <= a <= b: three decimal digits by
\* long division, then the rest rounded half to even
NextDigit(st, b) == [q |-> 10 * st.q + ((10 * st.r) \div b), r |-> (10 * st.r) % b]
RoundHalfEven(st, b) ==
    IF 2 * st.r > b \/ (2 * st.r = b /\ st.q % 2 = 1) THEN st.q + 1 ELSE st.q
Round3(a, b) ==
    RoundHalfEven(NextDigit(NextDigit(NextDigit([q |-> a \div b, r |-> a % b], b), b), b), b)

NoCycle == [has_cycle |-> FALSE, confidence |-> 0]
\* cycle_strength > 0.3, round(cycle_strength, 3)
CycleAt(strength, baseline) ==
    [has_cycle |-> 10 * strength > 3 * baseline, confidence |-> Round3(strength, baseline)]
CycleOf(d, period) ==
    IF Autocorr(d, 0) = 0 THEN NoCycle
    ELSE IF Len(d) > period THEN CycleAt(Abs(Autocorr(d, period)), Autocorr(d, 0))
    ELSE NoCycle
\* _detect_cycle(values, period)
detect_cycle(values, period) ==
    IF Len(values) < period * 2 THEN NoCycle ELSE CycleOf(Centered(values), period)

\* _calculate_correlations: the keys of the result
calculate_correlations(rest, climate, clarity) ==
    IF Len(rest) > 2 THEN {"rest-climate", "rest-clarity", "climate-clarity"} ELSE {}

\* abs(slope) < 0.05: stable; slope > 0: worsening; else improving
direction_of_slope(slope) ==
    IF 2 * Abs(slope.num) < slope.den THEN "stable"
    ELSE IF slope.num > 0 THEN "worsening"
    ELSE "improving"
\* _analyze_trend(values): the direction
analyze_trend(values) ==
    IF Len(values) < min_data_points THEN "unknown"
    ELSE direction_of_slope(linregress(values))

\* the values in increasing order
SortedValues(values) ==
    [k \in DOMAIN values |->
        CHOOSE v \in {values[i] : i \in DOMAIN values} :
            /\ Cardinality({i \in DOMAIN values : values[i] < v}) < k
            /\ k <= Cardinality({i \in DOMAIN values : values[i] <= v})]
\* 4 * np.percentile(values, 25 * p): linear interpolation at p * (n - 1) / 4
Interpolate4(sorted, j, r) ==
    IF r = 0 THEN 4 * sorted[j + 1] ELSE (4 - r) * sorted[j + 1] + r * sorted[j + 2]
Percentile4(sorted, p) ==
    Interpolate4(sorted, (p * (Len(sorted) - 1)) \div 4, (p * (Len(sorted) - 1)) % 4)
\* 8 * (q1 - 1.5 * iqr) and 8 * (q3 + 1.5 * iqr), from 4 * q1 and 4 * q3
Fences(q1, q3) == [lower |-> 2 * q1 - 3 * (q3 - q1), upper |-> 2 * q3 + 3 * (q3 - q1)]
IsOutlier(val, f) == 8 * val < f.lower \/ 8 * val > f.upper
IQRFences(sorted) == Fences(Percentile4(sorted, 1), Percentile4(sorted, 3))
OutlierIndices(values, f) ==
    SelectSeq([i \in DOMAIN values |-> i], LAMBDA i : IsOutlier(values[i], f))
\* _detect_outliers(entries, values)
detect_outliers(entries, values) ==
    IF Len(values) < min_data_points THEN NoDates
    ELSE FirstDates(DatesOf(entries, OutlierIndices(values, IQRFences(SortedValues(values)))), 5)

window == 7
\* the square of the two-sided 5% point of Student's t with 2 * window - 2 = 12
\* degrees of freedom (2.1788...), in thousandths
t_crit_sq == 4747
SumSq(values) == Sum([i \in DOMAIN values |-> values[i] * values[i]])
\* t^2 = num / den > t_crit_sq / 1000; equal constant samples give nan, and
\* different constant samples an infinite t
Significant(num, den) ==
    IF den = 0 THEN num > 0
    ELSE \/ num \div den > t_crit_sq \div 1000
         \/ /\ num \div den = t_crit_sq \div 1000
            /\ 1000 * (num % den) > (t_crit_sq % 1000) * den
TSquared(s1, s2, q) ==
    Significant((window - 1) * (s1 - s2) * (s1 - s2), window * q - s1 * s1 - s2 * s2)
\* stats.ttest_ind(before, after): p_value < 0.05
ttest_ind(before, after) ==
    TSquared(Sum(before), Sum(after), SumSq(before) + SumSq(after))
\* for i in range(window, len(values) - window), the index i held at place i + 1
ChangeIndices(values) ==
    SelectSeq([k \in DOMAIN values |-> k],
              LAMBDA k : /\ k - 1 >= window
                         /\ k - 1 < Len(values) - window
                         /\ ttest_ind(SubSeq(values, k - window, k - 1),
                                      SubSeq(values, k, k + window - 1)))
\* _detect_change_points(entries, values)
detect_change_points(entries, values) ==
    IF Len(values) < 14 THEN NoDates
    ELSE FirstDates(DatesOf(entries, ChangeIndices(values)), 3)

\* _empty_pattern_analysis()
empty_pattern_analysis ==
    [kind |-> "PatternAnalysis", has_weekly_cycle |-> FALSE, weekly_confidence |-> 0,
     has_monthly_cycle |-> FALSE, monthly_confidence |-> 0, correlations |-> {},
     trend_direction |-> "unknown", outlier_dates |-> << >>, change_points |-> << >>,
     exc |-> "none"]
PatternRaise(exc) == [empty_pattern_analysis EXCEPT !.kind = "raise", !.exc = exc]
PatternAnalysis(weekly, monthly, correlations, trend_dir, outlier_dates, change_points) ==
    IF outlier_dates.raises \/ change_points.raises THEN PatternRaise("TypeError")
    ELSE [kind |-> "PatternAnalysis",
          has_weekly_cycle |-> weekly.has_cycle, weekly_confidence |-> weekly.confidence,
          has_monthly_cycle |-> monthly.has_cycle,
          monthly_confidence |-> monthly.confidence,
          correlations |-> correlations, trend_direction |-> trend_dir,
          outlier_dates |-> outlier_dates.dates, change_points |-> change_points.dates,
          exc |-> "none"]
\* rest_values[:min_len] and the analyses of the truncated series
PatternsOf(entries, rest_values, climate_values, clarity_values) ==
    IF Len(rest_values) < min_data_points THEN empty_pattern_analysis
    ELSE PatternAnalysis(detect_cycle(rest_values, 7), detect_cycle(rest_values, 28),
                         calculate_correlations(rest_values, climate_values, clarity_values),
                         analyze_trend(rest_values),
                         detect_outliers(entries, rest_values),
                         detect_change_points(entries, rest_values))
Truncated(entries, rest, climate, clarity, min_len) ==
    IF rest.raises \/ climate.raises \/ clarity.raises THEN PatternRaise("OverflowError")
    ELSE PatternsOf(entries, SubSeq(rest.values, 1, min_len),
                    SubSeq(climate.values, 1, min_len), SubSeq(clarity.values, 1, min_len))
MappedPatterns(entries, rest, climate, clarity) ==
    Truncated(entries, rest, climate, clarity,
              Min(Len(rest.values), Min(Len(climate.values), Len(clarity.values))))
\* detect_patterns(entries)
detect_patterns(entries) ==
    MappedPatterns(entries, get_mapped_values(entries, "rest"),
                   get_mapped_values(entries, "climate"),
                   get_mapped_values(entries, "clarity"))

(***************************************************************************)
(* The inputs of pattern detection: dated histories                        *)
(***************************************************************************)
MaxPoints == 16
January == <<"2", "0", "2", "4", "-", "0", "1", "-">>
Morning == <<"T", "0", "8", ":", "3", "0", ":", "0", "0">>
\* the timestamp of day i of a history: a date, on odd days with a time
DayStamp(i) == Str(January \o ZeroPad(IntStr(i), 2) \o (IF i % 2 = 1 THEN Morning ELSE << >>))
DayEntry(i, rest) == Stamped(Entry(rest, Str(Cool), Str(Focused), NoNotes), DayStamp(i))

RestLabels == {Restorative, Fragmented, Awakening3AM}
\* n days in three runs: a days of one label, b of a second, the others of a third
RunSeries(n, a, b, first, second, third) ==
    [i \in 1..n |-> DayEntry(i, Str(IF i <= a THEN first
                                    ELSE IF i <= a + b THEN second
                                    ELSE third))]
\* n restorative days but for a fragmented day i and a day j of 3 AM awakening
TwoMarks(n, i, j) ==
    [k \in 1..n |-> DayEntry(k, Str(IF k = i THEN Fragmented
                                    ELSE IF k = j THEN Awakening3AM
                                    ELSE Restorative))]
\* lengths whose mean is an exact binary fraction: the regression of such a
\* series of small integers is computed without rounding but for the last
\* division
ExactLens == {8, MaxPoints}

\* values that are no score, a timestamp and a note of every kind the file
\* can hold
DirtyValues == InvalidValues \cup {BigInt(1, 400)}
DirtyStamps == {DayStamp(1), Absent, NoneValue, Str(Garbage), Integer(1704067200)}
DirtyNotes == {NoNotes, Absent, NoneValue, Str(Unbearable)}
\* n entries of one dirty value, the last one with a rest value of its own
DirtySeries(n, bad, final, stamp, notes) ==
    [i \in 1..n |-> Stamped(Entry(IF i = n THEN final ELSE bad, bad, bad, notes), stamp)]
DirtyLens == {0, min_data_points - 1, min_data_points, 2 * min_data_points}

DetectPatterns(entries) ==
    /\ fnIn' = [fn |-> "detect_patterns", entries |-> entries]
    /\ fnOut' = detect_patterns(entries)
    /\ UNCHANGED statefulVars

NextPatterns ==
    /\ fnIn.fn = "none"
    /\ \/ \E n \in 0..MaxPoints, a \in 0..MaxPoints, b \in 0..MaxPoints :
            /\ a + b <= n
            /\ \E first \in RestLabels, second \in RestLabels, third \in RestLabels :
                   DetectPatterns(RunSeries(n, a, b, first, second, third))
       \/ \E n \in ExactLens, i \in 1..MaxPoints, j \in 1..MaxPoints :
            /\ i <= n
            /\ j <= n
            /\ i # j
            /\ DetectPatterns(TwoMarks(n, i, j))
       \/ \E n \in DirtyLens, bad \in DirtyValues, final \in DirtyValues \cup {Str(Awakening3AM)},
             stamp \in DirtyStamps, notes \in DirtyNotes :
            \/ DetectPatterns(DirtySeries(n, bad, final, stamp, notes))
            \/ AssessRiskLevel(DirtySeries(n, bad, final, stamp, notes))
            \/ \E key \in SymptomKeys :
                   AnalyzeSymptomStatistics(DirtySeries(n, bad, final, stamp, notes), key)
SpecPatterns == InitPure /\ [][NextPatterns]_vars

(***************************************************************************)
(* save_pulse_entry on the files of the user data directory, statement by  *)
(* statement and in several threads.  Here pulse is the history file with  *)
(* the backup directory, loc holds a call's entry, its list and its        *)
(* temporary file, ret what the call returned, calls the number of calls   *)
(* made and committed the entries whose save returned (True, "").          *)
(***************************************************************************)
MaxSaves == 2
MAX_BACKUPS == 10

VALID_REST_VALUES == {Awakening3AM, Fragmented, Restorative}
VALID_CLIMATE_VALUES == {Cool, Warm, Flashing, Heavy}
VALID_CLARITY_VALUES == {BrainFog, Neutral, Focused}

Validated(ok, msg, exc) == [ok |-> ok, msg |-> msg, exc |-> exc]
\* value is not None and value not in allowed: a list cannot be hashed
LabelError(value, allowed) ==
    IF value.type = "NoneType" THEN "none"
    ELSE IF value.type = "list" THEN "TypeError"
    ELSE IF value.type = "str" /\ value.text \in allowed THEN "none"
    ELSE "invalid"
\* if self.timestamp:
Truthy(value) ==
    \/ value.type = "str" /\ Len(value.text) > 0
    \/ value.type \in {"int", "float", "bool"} /\ value.num # 0
    \/ value.type = "list"
\* try: datetime.fromisoformat(self.timestamp) except ValueError
TimestampChecked(parsed) ==
    IF parsed.kind = "date" THEN Validated(TRUE, "", "none")
    ELSE IF parsed.exc = "ValueError"
    THEN Validated(FALSE, "Invalid timestamp format", "none")
    ELSE Validated(FALSE, "", parsed.exc)
LabelsChecked(errors, timestamp) ==
    IF \E i \in DOMAIN errors :
          errors[i] = "TypeError" /\ (\A j \in 1..(i - 1) : errors[j] = "none")
    THEN Validated(FALSE, "", "TypeError")
    ELSE IF \E i \in DOMAIN errors : errors[i] = "invalid"
    THEN Validated(FALSE, "Invalid value", "none")
    ELSE IF Truthy(timestamp) THEN TimestampChecked(fromisoformat(timestamp))
    ELSE Validated(TRUE, "", "none")
\* PulseEntry.validate
validate(rest, climate, clarity, timestamp) ==
    IF rest.type = "NoneType" /\ climate.type = "NoneType" /\ clarity.type = "NoneType"
    THEN Validated(FALSE, "At least one symptom score required", "none")
    ELSE LabelsChecked(<<LabelError(rest, VALID_REST_VALUES),
                         LabelError(climate, VALID_CLIMATE_VALUES),
                         LabelError(clarity, VALID_CLARITY_VALUES)>>, timestamp)

\* the history file: missing, a JSON list ("list"), JSON of another kind
\* ("object"), no JSON ("corrupt") or a file that cannot be opened
\* ("unreadable"); a backup is a copy of it under the name of its second
File(status, content, mtime) ==
    [exists |-> status # "missing", status |-> status, content |-> content,
     mtime |-> mtime]
Backup(fs, t) == [at |-> t, status |-> fs.status, content |-> fs.content, mtime |-> fs.mtime]
Directory(file, backups) ==
    [exists |-> file.exists, status |-> file.status, content |-> file.content,
     mtime |-> file.mtime, backups |-> backups]

\* sorted(BACKUP_DIR.glob(...))[-MAX_BACKUPS:] after the copy
KeptBackups(backups) ==
    SubSeq(backups, IF Len(backups) > MAX_BACKUPS THEN Len(backups) - MAX_BACKUPS + 1 ELSE 1,
           Len(backups))
\* create_backup: nothing without a file; a copy that fails is logged
create_backup(fs, t) ==
    IF ~fs.exists \/ fs.status = "unreadable" THEN fs
    ELSE [fs EXCEPT !.backups =
             KeptBackups(SelectSeq(fs.backups, LAMBDA b : b.at # t) \o <<Backup(fs, t)>>)]

\* the latest backup that holds a JSON list
Restorable(backups) == SelectSeq(backups, LAMBDA b : b.status = "list")
Restored(fs, b) ==
    [fs |-> [fs EXCEPT !.status = "list", !.content = b.content, !.mtime = b.mtime],
     value |-> b.content]
\* restore_from_backup: the list of the latest valid backup, copied over the file
restore_from_backup(fs) ==
    IF Len(Restorable(fs.backups)) = 0 THEN [fs |-> fs, value |-> << >>]
    ELSE Restored(fs, Restorable(fs.backups)[Len(Restorable(fs.backups))])

\* an element of the list that is no dict
NotADict == [json |-> "number"]
IsDict(item) == "json" \notin DOMAIN item
\* the body of load_pulse_history
read_pulse_history(fs) ==
    IF ~fs.exists THEN [fs |-> fs, value |-> << >>]
    ELSE IF fs.status = "corrupt" THEN restore_from_backup(fs)
    ELSE IF fs.status = "list" THEN [fs |-> fs, value |-> SelectSeq(fs.content, IsDict)]
    ELSE [fs |-> fs, value |-> << >>]
\* load_pulse_history with its st.cache_data memo
Loaded(lph, r, t) == [lph |-> Memo(r.value, t), fs |-> r.fs, value |-> r.value]
load_history(lph, fs, t) ==
    IF MemoFresh(lph, t) THEN [lph |-> lph, fs |-> fs, value |-> lph.value]
    ELSE Loaded(lph, read_pulse_history(fs), t)

\* shutil.move(tmp_path, PULSE_HISTORY_FILE): the file replaced at once
moved_in_place(fs, history, t, ok) ==
    IF ok THEN [fs EXCEPT !.exists = TRUE, !.status = "list", !.content = history,
                          !.mtime = t]
    ELSE [fs EXCEPT !.exists = TRUE, !.status = "corrupt", !.content = << >>, !.mtime = t]
moved(fs, history, t, ok) ==
    IF ok THEN [fs EXCEPT !.exists = TRUE, !.status = "list", !.content = history,
                          !.mtime = t]
    ELSE fs

SaveResult(ok, msg) == [ok |-> ok, msg |-> msg]
\* wrote and cleared are history: the call changed the history a load
\* returns, the call invalidated the caches
NoSave == [entry |-> << >>, history |-> << >>, tmp |-> "none", wrote |-> FALSE,
           cleared |-> FALSE]
\* the entries stored in the file, and the history a call would load
Stored(fs) ==
    IF fs.status \in {"list", "unreadable"} THEN SelectSeq(fs.content, IsDict) ELSE << >>
Persisted(fs) == read_pulse_history(fs).value

\* the entry a call is given: of thread t, told by its note
ThreadNote(t) == Str(IntStr(t))
GoodEntry(t) == Entry(Str(Fragmented), Absent, Absent, ThreadNote(t))
SaveInputs(t) ==
    {Stamped(GoodEntry(t), Absent),
     Stamped(Entry(NoneValue, Absent, Absent, ThreadNote(t)), Absent),
     Stamped(Entry(Str(Garbage), Absent, Absent, ThreadNote(t)), Absent),
     Stamped(Entry(Absent, Str(Restorative), Absent, ThreadNote(t)), Absent),
     Stamped(GoodEntry(t), Str(Garbage)),
     Stamped(GoodEntry(t), Integer(1)),
     Stamped(Entry(List, Absent, Absent, ThreadNote(t)), Absent)}
\* the entry of an earlier run
OldEntry == Stamped(Entry(Str(Restorative), Str(Cool), Str(Focused), NoNotes), DayStamp(1))
OldBackup == [at |-> -1, status |-> "list", content |-> <<OldEntry>>, mtime |-> 0]
\* the directory at process start
Directories ==
    {Directory(File("missing", << >>, 0), << >>),
     Directory(File("list", <<OldEntry>>, 0), << >>),
     Directory(File("list", <<NotADict, OldEntry>>, 0), << >>),
     Directory(File("object", << >>, 0), << >>),
     Directory(File("unreadable", <<OldEntry>>, 0), << >>),
     Directory(File("corrupt", << >>, 0), << >>),
     Directory(File("corrupt", << >>, 0), <<OldBackup>>)}

\* process start: no call made, the caches and memos empty
InitSave ==
    /\ InitCache({MaxSize})
    /\ lock = NoThread
    /\ pc = [t \in Threads |-> "idle"]
    /\ req = [t \in Threads |-> NoReq]
    /\ loc = [t \in Threads |-> NoSave]
    /\ ret = [t \in Threads |-> SaveResult(TRUE, "")]
    /\ seq = cache
    /\ expect = [t \in Threads |-> NoRet]
    /\ calls = 0
    /\ ctxCache = TTLCache(AppCacheSize)
    /\ ragCache = TTLCache(AppCacheSize)
    /\ userCache = TTLCache(UserCacheSize)
    /\ chromaMemo = "unset"
    /\ profile = NoProfile
    /\ pulse \in Directories
    /\ sess = profile
    /\ lphMemo = NoMemo
    /\ rpcMemo = NoMemo
    /\ lastApp = NoAppCall
    /\ dirty = "clean"
    /\ saved = 0
    /\ appCalls = 0
    /\ savePc = "idle"
    /\ reqPc = "idle"
    /\ reqLoc = NoReqLoc
    /\ committed = << >>
    /\ fnIn = [fn |-> "none"]
    /\ fnOut = None

saveFrame == <<cache, histVars, lock, req, seq, expect, ctxCache, ragCache, chromaMemo,
               profile, sess, lastApp, dirty, saved, appCalls, savePc, reqPc, reqLoc,
               pureVars>>

Return(t, ok, msg) ==
    /\ pc' = [pc EXCEPT ![t] = "idle"]
    /\ ret' = [ret EXCEPT ![t] = SaveResult(ok, msg)]

\* save_pulse_entry up to the validation: the timestamp added, the entry
\* validated
SaveCall(t, entry_data) ==
    /\ pc[t] = "idle"
    /\ calls < MaxSaves
    /\ calls' = calls + 1
    /\ LET entry == IF HasKey(entry_data, "timestamp") THEN entry_data
                    ELSE [entry_data EXCEPT !.timestamp = DayStamp(now + 1)]
           v == validate(DictGet(entry, "rest"), DictGet(entry, "climate"),
                         DictGet(entry, "clarity"), entry.timestamp)
       IN IF v.exc = "TypeError"
          THEN Return(t, FALSE, "Invalid structure") /\ loc' = [loc EXCEPT ![t] = NoSave]
          ELSE IF ~v.ok
          THEN Return(t, FALSE, "Invalid entry") /\ loc' = [loc EXCEPT ![t] = NoSave]
          ELSE /\ pc' = [pc EXCEPT ![t] = "create_backup"]
               /\ loc' = [loc EXCEPT ![t] = [NoSave EXCEPT !.entry = entry]]
               /\ UNCHANGED ret
    /\ UNCHANGED <<now, pulse, lphMemo, rpcMemo, userCache, committed, saveFrame>>

\* create_backup()
SaveBackup(t) ==
    /\ pc[t] = "create_backup"
    /\ pulse' = create_backup(pulse, now)
    /\ pc' = [pc EXCEPT ![t] = "load_pulse_history"]
    /\ loc' = [loc EXCEPT ![t].wrote = @ \/ Persisted(pulse') # Persisted(pulse)]
    /\ UNCHANGED <<now, ret, calls, lphMemo, rpcMemo, userCache, committed, saveFrame>>

\* history = load_pulse_history(); history.append(entry_data)
SaveLoad(t) ==
    /\ pc[t] = "load_pulse_history"
    /\ LET h == load_history(lphMemo, pulse, now) IN
        /\ lphMemo' = h.lph
        /\ pulse' = h.fs
        /\ loc' = [loc EXCEPT ![t].history = Append(h.value, loc[t].entry),
                              ![t].wrote = @ \/ Persisted(h.fs) # Persisted(pulse)]
    /\ pc' = [pc EXCEPT ![t] = "json.dump"]
    /\ UNCHANGED <<now, ret, calls, rpcMemo, userCache, committed, saveFrame>>

\* the temporary file created and written; on an exception tmp_path is still
\* None and the file stays behind
SaveDump(t, ok) ==
    /\ pc[t] = "json.dump"
    /\ IF ok
       THEN /\ loc' = [loc EXCEPT ![t].tmp = "complete"]
            /\ pc' = [pc EXCEPT ![t] = "shutil.move"]
            /\ UNCHANGED ret
       ELSE /\ loc' = [loc EXCEPT ![t].tmp = "left"]
            /\ Return(t, FALSE, "Save failed")
    /\ UNCHANGED <<now, pulse, calls, lphMemo, rpcMemo, userCache, committed, saveFrame>>

\* shutil.move(tmp_path, PULSE_HISTORY_FILE); on an exception the temporary
\* file is removed
SaveMove(t, ok) ==
    /\ pc[t] = "shutil.move"
    /\ pulse' = moved(pulse, loc[t].history, now, ok)
    /\ IF ok
       THEN /\ loc' = [loc EXCEPT ![t].tmp = "none",
                                  ![t].wrote = @ \/ Persisted(pulse') # Persisted(pulse)]
            /\ pc' = [pc EXCEPT ![t] = "invalidate_all_caches"]
            /\ UNCHANGED ret
       ELSE /\ loc' = [loc EXCEPT ![t].tmp = "none",
                                  ![t].wrote = @ \/ Persisted(pulse') # Persisted(pulse)]
            /\ Return(t, FALSE, "Save failed")
    /\ UNCHANGED <<now, calls, lphMemo, rpcMemo, userCache, committed, saveFrame>>

\* invalidate_all_caches(); return True, ""
SaveInvalidate(t) ==
    /\ pc[t] = "invalidate_all_caches"
    /\ LET inv == invalidate_all_caches(userCache) IN
        /\ lphMemo' = inv.lph
        /\ rpcMemo' = inv.rpc
        /\ userCache' = inv.cache
    /\ committed' = Append(committed, loc[t].entry)
    /\ loc' = [loc EXCEPT ![t].cleared = TRUE]
    /\ Return(t, TRUE, "")
    /\ UNCHANGED <<now, pulse, calls, saveFrame>>

\* a view of the application reads the history
LoadHistory ==
    /\ calls < MaxSaves
    /\ calls' = calls + 1
    /\ LET h == load_history(lphMemo, pulse, now) IN
        /\ lphMemo' = h.lph
        /\ pulse' = h.fs
    /\ UNCHANGED <<now, pc, loc, ret, rpcMemo, userCache, committed, saveFrame>>

TickSave ==
    /\ now < MaxTime
    /\ now' = now + 1
    /\ UNCHANGED <<pulse, pc, loc, ret, calls, lphMemo, rpcMemo, userCache, committed,
                   saveFrame>>

NextSave ==
    \/ \E t \in Threads : \E entry_data \in SaveInputs(t) : SaveCall(t, entry_data)
    \/ \E t \in Threads : SaveBackup(t)
    \/ \E t \in Threads : SaveLoad(t)
    \/ \E t \in Threads, ok \in BOOLEAN : SaveDump(t, ok)
    \/ \E t \in Threads, ok \in BOOLEAN : SaveMove(t, ok)
    \/ \E t \in Threads : SaveInvalidate(t)
    \/ LoadHistory
    \/ TickSave

SpecSave == InitSave /\ [][NextSave]_vars

(***************************************************************************)
(* generate_insights_report: the attempt loop around the local model.  A   *)
(* text is the sequence of its lines, each line told by what               *)
(* clean_report_text asks of it: a "header" starts with ###, a "preamble"  *)
(* and a "postamble" hold one of the patterns, "content" is a line of more *)
(* than 20 characters without a pattern, "short" any other line with       *)
(* characters and "blank" one without.  reqPc is the position in the       *)
(* function, reqLoc its local variables with, as history, the outcome of   *)
(* every attempt and the seconds of every sleep.                           *)
(***************************************************************************)
MaxRetries == 3

RECURSIVE Pow2(_)
Pow2(n) == IF n = 0 THEN 1 ELSE 2 * Pow2(n - 1)
\* time.sleep(2**attempt)
backoff(attempt) == Pow2(attempt)

\* not report_text or not report_text.strip()
IsBlankText(text) == text = None \/ \A i \in DOMAIN text : text[i] = "blank"

\* the first line that is a header or content, the lines before it being
\* preambles, short or blank; 0 when there is none (start_idx, from 1)
StartsReport(line) == line \in {"header", "content", "postamble"}
StartIdx(lines) ==
    IF \E i \in DOMAIN lines : StartsReport(lines[i])
    THEN CHOOSE i \in DOMAIN lines :
             StartsReport(lines[i]) /\ \A j \in 1..(i - 1) : ~StartsReport(lines[j])
    ELSE 1
\* scanning backwards: end_idx is the topmost postamble below the last header
RECURSIVE EndIdx(_, _, _)
EndIdx(lines, idx, end) ==
    IF idx = 0 THEN end
    ELSE IF lines[idx] = "postamble" THEN EndIdx(lines, idx - 1, idx)
    ELSE IF lines[idx] = "header" THEN end
    ELSE EndIdx(lines, idx - 1, end)
Body(lines) == SubSeq(lines, 1, EndIdx(lines, Len(lines), Len(lines) + 1) - 1)
\* clean_report_text: the lines from start_idx to end_idx, the blank ones
\* dropped
clean_report_text(text) ==
    SelectSeq(Body(SubSeq(text, StartIdx(text), Len(text))), LAMBDA l : l # "blank")

\* what one attempt gives: an exception out of the model, or a text
Generated(kind, text) == [kind |-> kind, text |-> text]
Generations ==
    {Generated("raise", None)}
    \cup {Generated("text", t) :
             t \in {<<"blank">>, <<"blank", "blank">>, <<"header", "content">>,
                    <<"preamble", "header", "content", "postamble">>,
                    <<"postamble">>, <<"short">>}}

\* not retry_on_failure or attempt == max_retries
last_permitted_any(retry_on_failure, attempt, max_retries) == attempt = max_retries
last_permitted(retry_on_failure, attempt, max_retries) ==
    ~retry_on_failure \/ attempt = max_retries

ReportResult(ok, text, metrics) == [ok |-> ok, text |-> text, metrics |-> metrics]
NoResult == ReportResult(FALSE, None, None)
NoAttempts == [attempt |-> 0, report_text |-> None, last_error |-> None,
               outcomes |-> << >>, slept |-> << >>, result |-> NoResult]

reportFrame == <<cacheVars, histVars, thrVars, ctxCache, ragCache, userCache, chromaMemo,
                 profile, pulse, sess, lphMemo, rpcMemo, lastApp, dirty, saved, appCalls,
                 savePc, committed, fnOut>>

ReportReturn(loc3, result) ==
    /\ reqPc' = "returned"
    /\ reqLoc' = [loc3 EXCEPT !.result = result]

\* the call up to the loop: the context built and validated, the
\* deterministic analysis and the prompt; an exception there is caught by
\* the outer except
GenerateInsightsReport(retry_on_failure, max_retries, before) ==
    /\ reqPc = "idle"
    /\ fnIn' = [fn |-> "generate_insights_report", retry_on_failure |-> retry_on_failure,
                max_retries |-> max_retries]
    /\ IF before = "invalid"
       THEN ReportReturn(NoAttempts, ReportResult(FALSE, <<"error_msg">>, None))
       ELSE IF before = "raise"
       THEN ReportReturn(NoAttempts, ReportResult(FALSE, <<"Error generating report">>, None))
       ELSE reqPc' = "for" /\ reqLoc' = NoAttempts
    /\ UNCHANGED reportFrame

\* for attempt in range(max_retries + 1): if attempt > 0: time.sleep(...)
ReportFor ==
    /\ reqPc = "for"
    /\ IF reqLoc.attempt > fnIn.max_retries
       THEN reqPc' = "after" /\ UNCHANGED reqLoc
       ELSE /\ reqPc' = "generate"
            /\ reqLoc' = IF reqLoc.attempt > 0
                         THEN [reqLoc EXCEPT !.slept = Append(@, backoff(reqLoc.attempt))]
                         ELSE reqLoc
    /\ UNCHANGED <<fnIn, reportFrame>>

Failed(loc3, error) ==
    IF last_permitted(fnIn.retry_on_failure, reqLoc.attempt, fnIn.max_retries)
    THEN ReportReturn(loc3, ReportResult(FALSE, error, None))
    ELSE /\ reqLoc' = [loc3 EXCEPT !.attempt = @ + 1]
         /\ reqPc' = "for"

\* one attempt: the model called, its text decoded, checked and cleaned
ReportGenerate(g) ==
    /\ reqPc = "generate"
    /\ LET tried == [reqLoc EXCEPT !.outcomes = Append(@, g)] IN
        IF g.kind = "raise"
        THEN Failed([tried EXCEPT !.last_error = <<"LLM call failed">>],
                    <<"LLM call failed">>)
        ELSE IF IsBlankText(g.text)
        THEN Failed([tried EXCEPT !.report_text = g.text,
                                  !.last_error = <<"LLM returned empty response">>],
                    <<"LLM returned empty response">>)
        ELSE /\ reqLoc' = [tried EXCEPT !.report_text = clean_report_text(g.text)]
             /\ reqPc' = "after"
    /\ UNCHANGED <<fnIn, reportFrame>>

\* behind the loop: if not report_text, then the metrics, the quality check
\* and the saved report, an exception there caught by the outer except
ReportAfter(rest) ==
    /\ reqPc = "after"
    /\ IF IsBlankText(reqLoc.report_text)
       THEN ReportReturn(reqLoc, ReportResult(FALSE,
                IF reqLoc.last_error = None THEN <<"Unknown error">> ELSE reqLoc.last_error,
                None))
       ELSE IF rest = "raise"
       THEN ReportReturn(reqLoc, ReportResult(FALSE, <<"Error generating report">>, None))
       ELSE ReportReturn(reqLoc, ReportResult(TRUE, reqLoc.report_text, <<"metrics">>))
    /\ UNCHANGED <<fnIn, reportFrame>>

NextReport ==
    \/ \E retry_on_failure \in BOOLEAN, max_retries \in 0..MaxRetries,
          before \in {"ok", "invalid", "raise"} :
          GenerateInsightsReport(retry_on_failure, max_retries, before)
    \/ ReportFor
    \/ \E g \in Generations : ReportGenerate(g)
    \/ \E rest \in {"ok", "raise"} : ReportAfter(rest)

\* every statement that can run does run: no step of the function waits for
\* anything but the model's answer and the sleep
SpecReport == InitPure /\ [][NextReport]_vars /\ WF_vars(NextReport)

(***************************************************************************)
(* call_medgemma and call_medgemma_stream: one POST to the model server    *)
(* and what is made of its outcome.  A message is the sequence of its      *)
(* parts.  The outcome is an exception out of requests or a response: a    *)
(* status with a body (call_medgemma) or with lines, read until they end   *)
(* or an exception interrupts them (call_medgemma_stream).                 *)
(***************************************************************************)
OLLAMA_TIMEOUT == 60
MaxLines == 2

\* the exceptions of requests and json: the class, whether it is a
\* requests.exceptions.Timeout, the failure it stands for, and str(e)
Exc(type, is_timeout, kind, text) ==
    [type |-> type, is_timeout |-> is_timeout, kind |-> kind, text |-> text]
NoExc == Exc("none", FALSE, "none", << >>)
Exceptions ==
    {Exc("ConnectTimeout", TRUE, "timeout", <<"Connection to localhost timed out">>),
     Exc("ReadTimeout", TRUE, "timeout", <<"Read timed out">>),
     Exc("ConnectionError", FALSE, "refused", <<"Connection refused">>),
     Exc("ConnectionError", FALSE, "other", <<"Name or service not known">>),
     Exc("ChunkedEncodingError", FALSE, "other", <<"Connection broken">>)}
JSONDecodeError == Exc("JSONDecodeError", FALSE, "other", <<"Expecting value">>)
AttributeError == Exc("AttributeError", FALSE, "other", <<"no attribute 'get'">>)
TypeErrorIn == Exc("TypeError", FALSE, "other", <<"argument is not iterable">>)

\* a body or a line: a JSON object with or without "response", JSON of
\* another kind, text that is no JSON, an empty line
Json(kind, response) == [kind |-> kind, response |-> response]
Answer(text) == Json("response", text)
ErrorBody == Json("error", << >>)
Done == Json("done", << >>)
Number == Json("number", << >>)
NotJson == Json("invalid", << >>)
EmptyLine == Json("empty", << >>)
AnswerTexts == {<<"Hot flashes">>, << >>}

\* f"Error: Request timed out after {Config.OLLAMA_TIMEOUT}s"
TimedOut == <<"Error: ", "Request timed out after ", IntStr(OLLAMA_TIMEOUT), "s">>
\* f"Error: {str(e)}"
ErrorOf(e) == <<"Error: ">> \o e.text
\* the two except clauses
Handled(e) == IF e.is_timeout THEN TimedOut ELSE ErrorOf(e)

\* response.json().get("response", "")
ResponseText(body) ==
    IF body.kind = "invalid" THEN [exc |-> JSONDecodeError]
    ELSE IF body.kind = "number" THEN [exc |-> AttributeError]
    ELSE IF body.kind = "response" THEN [exc |-> NoExc, text |-> body.response]
    ELSE [exc |-> NoExc, text |-> << >>]

\* call_medgemma on the outcome of the POST
call_medgemma(outcome) ==
    IF outcome.exc # NoExc THEN Handled(outcome.exc)
    ELSE IF ResponseText(outcome.body).exc # NoExc THEN Handled(ResponseText(outcome.body).exc)
    ELSE ResponseText(outcome.body).text

\* for line in response.iter_lines(): the chunks yielded, up to the line
\* that raises
RECURSIVE Streamed(_)
Streamed(lines) ==
    IF Len(lines) = 0 THEN [chunks |-> << >>, exc |-> NoExc]
    ELSE IF Head(lines).kind = "empty" THEN Streamed(Tail(lines))
    ELSE IF Head(lines).kind = "invalid" THEN [chunks |-> << >>, exc |-> JSONDecodeError]
    ELSE IF Head(lines).kind = "number" THEN [chunks |-> << >>, exc |-> TypeErrorIn]
    ELSE IF Head(lines).kind = "response"
    THEN [Streamed(Tail(lines)) EXCEPT !.chunks = <<Head(lines).response>> \o @]
    ELSE Streamed(Tail(lines))
Yielded(s, interrupted) ==
    IF s.exc # NoExc THEN Append(s.chunks, Handled(s.exc))
    ELSE IF interrupted # NoExc THEN Append(s.chunks, Handled(interrupted))
    ELSE s.chunks
\* call_medgemma_stream on the outcome of the POST: the chunks it yields
call_medgemma_stream(outcome) ==
    IF outcome.exc # NoExc THEN <<Handled(outcome.exc)>>
    ELSE Yielded(Streamed(outcome.lines), outcome.interrupted)

\* what the server does
OK == "200"
HttpErrors == {"404", "500"}
Posted(exc, status, body) == [exc |-> exc, status |-> status, body |-> body]
PostOutcomes ==
    {Posted(e, "none", NotJson) : e \in Exceptions}
    \cup {Posted(NoExc, OK, b) : b \in {Answer(t) : t \in AnswerTexts} \cup {Number, NotJson}}
    \cup {Posted(NoExc, s, b) : s \in HttpErrors, b \in {ErrorBody, NotJson}}
StreamOf(exc, status, lines, interrupted) ==
    [exc |-> exc, status |-> status, lines |-> lines, interrupted |-> interrupted]
Lines == {Answer(<<"Hot">>), Answer(<<"flashes">>), Done, EmptyLine, Number, NotJson}
LineSeqs == UNION {[1..n -> Lines] : n \in 0..MaxLines}
StreamOutcomes ==
    {StreamOf(e, "none", << >>, NoExc) : e \in Exceptions}
    \cup {StreamOf(NoExc, OK, l, i) : l \in LineSeqs, i \in Exceptions \cup {NoExc}}
    \cup {StreamOf(NoExc, s, <<ErrorBody>>, NoExc) : s \in HttpErrors}

CallMedgemma(outcome) ==
    /\ fnIn' = [fn |-> "call_medgemma", outcome |-> outcome]
    /\ fnOut' = call_medgemma(outcome)
    /\ UNCHANGED statefulVars
CallMedgemmaStream(outcome) ==
    /\ fnIn' = [fn |-> "call_medgemma_stream", outcome |-> outcome]
    /\ fnOut' = call_medgemma_stream(outcome)
    /\ UNCHANGED statefulVars

NextMedgemma ==
    /\ fnIn.fn = "none"
    /\ \/ \E outcome \in PostOutcomes : CallMedgemma(outcome)
       \/ \E outcome \in StreamOutcomes : CallMedgemmaStream(outcome)

SpecMedgemma == InitPure /\ [][NextMedgemma]_vars

(***************************************************************************)
(* C1: for a TTLCache of any max_size N the number of stored entries is    *)
(* at most N after every set (and in every state between calls).           *)
(***************************************************************************)
C1_SizeBound == Len(cache.entries) <= cache.max_size

(***************************************************************************)
(* C2: after set(key, v, ttl), get(key) returns v while the clock is not   *)
(* later than the time of the set + ttl; a get after that returns absent   *)
(* and removes the entry; a key with no stored write reads absent until    *)
(* it is set again; an overwriting set restarts the window at its own time.*)
(***************************************************************************)
C2_TTLWindow ==
    /\ last.op = "set" =>
          /\ last.key \in KeysOf(cache.entries)
          /\ written[last.key] = [value |-> last.value, at |-> now, ttl |-> last.ttl]
    /\ last.op = "get" =>
          IF last.prev = NoWrite
          THEN last.ret = None
          ELSE IF now <= last.prev.at + last.prev.ttl
               THEN /\ last.ret = last.prev.value
                    /\ last.key \in KeysOf(cache.entries)
               ELSE /\ last.ret = None
                    /\ last.key \notin KeysOf(cache.entries)
                    /\ written[last.key] = NoWrite

\* a get that found its entry expired, of a key that had been overwritten
\* later than it was first set
C2_Witness ==
    /\ last.op = "get"
    /\ last.prev # NoWrite
    /\ last.prev.at > 0
    /\ now > last.prev.at + last.prev.ttl
    /\ last.ret = None

\* a get at exactly creation time + ttl, which still returns the value
C2_WitnessBoundary ==
    /\ last.op = "get"
    /\ last.prev # NoWrite
    /\ now = last.prev.at + last.prev.ttl
    /\ last.ret = last.prev.value

(***************************************************************************)
(* C3: set removes an entry only when its key is absent and the cache      *)
(* holds max_size entries, and then exactly one, with the oldest           *)
(* timestamp; a set of a present key rewrites that entry in place          *)
(* (timestamp and ttl refreshed) and removes nothing.  Every other entry   *)
(* is left as it was.                                                      *)
(***************************************************************************)
C3_SetStep ==
    LET k == last'.key
        before == cache.entries
        after == cache'.entries
        gone == KeysOf(before) \ KeysOf(after)
    IN  last'.op = "set" =>
        /\ KeysOf(after) = (KeysOf(before) \ gone) \cup {k}
        /\ EntryOf(after, k) = CacheEntry(k, last'.value, now, last'.ttl)
        /\ \A j \in KeysOf(after) \ {k} : EntryOf(after, j) = EntryOf(before, j)
        /\ IF k \in KeysOf(before)
           THEN /\ gone = {}
                /\ IndexOf(after, k) = IndexOf(before, k)
           ELSE IF Len(before) = cache.max_size
                THEN /\ Cardinality(gone) = 1
                     /\ \A g \in gone : \A j \in KeysOf(before) :
                            EntryOf(before, g).timestamp <= EntryOf(before, j).timestamp
                ELSE gone = {}

C3_Eviction == [][C3_SetStep]_vars

\* a set of an absent key into a full cache of two or more entries: one
\* entry was evicted and the cache is full again
C3_Witness ==
    /\ last.op = "set"
    /\ last.removed # {}
    /\ Len(cache.entries) = cache.max_size
    /\ cache.max_size >= 2

\* a set of a present key into a full cache
C3_WitnessOverwrite ==
    /\ last.op = "set"
    /\ last.prev # NoWrite
    /\ last.removed = {}
    /\ Len(cache.entries) = cache.max_size

(***************************************************************************)
(* C4: every get increments exactly one counter, misses when the key is    *)
(* absent or expired and hits otherwise; set leaves the counters alone;    *)
(* clear empties the map and zeroes both; so hits + misses is the number   *)
(* of get calls since the latest clear, and get_stats reports it.          *)
(***************************************************************************)
C4_GetStep ==
    /\ last'.op = "get" =>
          IF last'.ret = None
          THEN cache'.misses = cache.misses + 1 /\ cache'.hits = cache.hits
          ELSE cache'.hits = cache.hits + 1 /\ cache'.misses = cache.misses
    /\ last'.op = "set" => cache'.hits = cache.hits /\ cache'.misses = cache.misses
    /\ last'.op = "clear" =>
          cache'.entries = << >> /\ cache'.hits = 0 /\ cache'.misses = 0

C4_Total ==
    /\ cache.hits + cache.misses = getCalls
    /\ last.op = "get_stats" =>
          /\ last.stats.total_requests = getCalls
          /\ last.stats.total_requests = last.stats.hits + last.stats.misses
          /\ last.stats.hits = cache.hits
          /\ last.stats.misses = cache.misses

C4_Counters == [][C4_GetStep]_vars /\ []C4_Total

\* the statistics after two hits and one miss
C4_Witness ==
    /\ last.op = "get_stats"
    /\ last.stats.hits = 2
    /\ last.stats.misses = 1
    /\ last.stats.size = 1

\* a get of an expired entry has been counted as a miss
C4_WitnessExpired ==
    /\ last.op = "get"
    /\ last.prev # NoWrite
    /\ last.ret = None
    /\ cache.misses = 1
    /\ cache.hits = 0

(***************************************************************************)
(* C5: under any interleaving of get, set, clear and get_stats calls from  *)
(* several threads, each call takes effect atomically: only the lock       *)
(* holder is inside a method body; whenever the lock is free the cache is  *)
(* exactly what the completed calls produce when run one at a time in the  *)
(* order of their lock release (so no counter increment is lost and no     *)
(* half-done eviction, insertion or clear is visible); every completed     *)
(* call returned what that sequential run returns; and the size bound      *)
(* holds whenever the lock is free.                                        *)
(***************************************************************************)
InBody(t) == pc[t] \notin {"idle", "acquire"}

C5_Atomic ==
    /\ \A t \in Threads : InBody(t) => lock = t
    /\ lock = NoThread =>
          /\ cache = seq
          /\ Len(cache.entries) <= cache.max_size
          /\ \A t \in Threads : pc[t] \in {"idle", "acquire"} => ret[t] = expect[t]

\* two gets overlapped (the second waited for the lock while the first was
\* between reading and writing its counter) and both were counted
C5_Witness ==
    /\ lock = NoThread
    /\ \A t \in Threads : pc[t] = "idle" /\ req[t].op = "get"
    /\ cache.hits + cache.misses = 2
    /\ calls = 2

\* a thread waits at the lock while another is half way through a clear
C5_WitnessWaiting ==
    \E t, u \in Threads :
        /\ pc[t] = "acquire"
        /\ pc[u] = "clear_hits"
        /\ cache.hits + cache.misses > 0

(***************************************************************************)
(* C6: an error outcome is never stored in a cache: when                   *)
(* query_knowledge_base returns an error result, or the LLM behind         *)
(* contextualize_query is unreachable or misconfigured, the call leaves    *)
(* no entry under its key                                                  *)
(***************************************************************************)
C6_ErrorsNotCached ==
    (/\ lastApp.fn \in {"contextualize_query", "query_knowledge_base"}
     /\ lastApp.failure # "none")
    => ~lastApp.stored

(***************************************************************************)
(* C7: a get_user_context_cached call begun after a save_pulse_entry has   *)
(* returned gives a context built from the symptom log as that save left   *)
(* it, also when another request ran concurrently with the save            *)
(***************************************************************************)
\* the context includes the entry that the n-th save wrote
BuiltAfter(context, n) ==
    n > 0 => /\ context # << >>
             /\ \E i \in DOMAIN context[2] : context[2][i] = n
C7_NoStaleContext ==
    (reqPc = "idle" /\ reqLoc.ret # None) => BuiltAfter(reqLoc.ret, reqLoc.base)

(***************************************************************************)
(* C8: query_knowledge_base never raises: whatever the vector store does   *)
(* it returns a tuple, and in each failure case the tuple has empty        *)
(* context, empty sources and an error descriptor                          *)
(***************************************************************************)
C8_NeverRaises ==
    lastApp.fn = "query_knowledge_base"
    => /\ ~lastApp.raised
       /\ lastApp.failure # "none"
          => /\ lastApp.ret[1] = << >>
             /\ lastApp.ret[2] = {}
             /\ lastApp.ret[3] # "none"

(***************************************************************************)
(* C9: a call of get_user_context_cached, query_knowledge_base or          *)
(* contextualize_query that finds an entry under its key, stored no longer *)
(* ago than 180 s, 600 s and 300 s respectively, returns the stored value  *)
(* and calls its collaborator zero times                                   *)
(***************************************************************************)
HitWithin(fn, ttl) ==
    (/\ lastApp.fn = fn
     /\ lastApp.prev.present
     /\ now <= lastApp.prev.timestamp + ttl)
    => /\ lastApp.ret = lastApp.prev.value
       /\ lastApp.collab = 0
C9_CachedHit ==
    /\ HitWithin("get_user_context_cached", 180)
    /\ HitWithin("query_knowledge_base", 600)
    /\ HitWithin("contextualize_query", 300)
\* a hit on the last second of the ttl
BoundaryHit(fn, ttl) ==
    /\ lastApp.fn = fn
    /\ lastApp.prev.present
    /\ now = lastApp.prev.timestamp + ttl
    /\ lastApp.collab = 0
C9_Witness == BoundaryHit("query_knowledge_base", 600)
C9_WitnessUser == BoundaryHit("get_user_context_cached", 180)
C9_WitnessCtx == BoundaryHit("contextualize_query", 300)

(***************************************************************************)
(* C10: get_user_profile_hash keeps its value while the profile's          *)
(* last_updated, its stage and the symptom log's modification time are     *)
(* unchanged and changes its value when one of them changes; the           *)
(* get_user_context_cached call after such a change misses and invokes the *)
(* context builder, also when no invalidation hook ran                     *)
(***************************************************************************)
C10_HashStep ==
    (DataState(profile', pulse') = DataState(profile, pulse))
    <=> (get_user_profile_hash(profile', pulse') = get_user_profile_hash(profile, pulse))
C10_MissAfterChange ==
    (lastApp.fn = "get_user_context_cached" /\ lastApp.dirty # "clean")
    => /\ ~lastApp.prev.present
       /\ lastApp.collab = 1
C10_KeyFollowsData == [][C10_HashStep]_vars /\ []C10_MissAfterChange
\* the file changed outside the application while the cache held the
\* context of the earlier state: the call misses and stores a second entry
C10_Witness ==
    /\ lastApp.fn = "get_user_context_cached"
    /\ lastApp.dirty = "external"
    /\ lastApp.collab = 1
    /\ Len(userCache.entries) = 2

(***************************************************************************)
(* C11: invalidate_user_context_cache empties the user-context cache and   *)
(* leaves the RAG cache and the contextualized-query cache as they were;   *)
(* invalidate_rag_cache empties the RAG cache and leaves the other two as  *)
(* they were; clear_all_caches empties all three                           *)
(***************************************************************************)
C11_HookStep ==
    /\ lastApp'.fn = "invalidate_user_context_cache"
       => /\ userCache'.entries = << >>
          /\ ragCache' = ragCache
          /\ ctxCache' = ctxCache
    /\ lastApp'.fn = "invalidate_rag_cache"
       => /\ ragCache'.entries = << >>
          /\ userCache' = userCache
          /\ ctxCache' = ctxCache
    /\ lastApp'.fn = "clear_all_caches"
       => /\ ctxCache'.entries = << >>
          /\ ragCache'.entries = << >>
          /\ userCache'.entries = << >>
C11_HooksFrame == [][C11_HookStep]_vars
\* invalidate_rag_cache emptied a RAG cache that held an entry while the
\* contextualized-query cache keeps its entry
C11_Witness ==
    /\ lastApp.fn = "invalidate_rag_cache"
    /\ lastApp.prev.present
    /\ ragCache.entries = << >>
    /\ Len(ctxCache.entries) > 0
\* invalidate_user_context_cache emptied the user-context cache while the
\* RAG cache keeps its entry
C11_WitnessUser ==
    /\ lastApp.fn = "invalidate_user_context_cache"
    /\ lastApp.prev.present
    /\ userCache.entries = << >>
    /\ Len(ragCache.entries) > 0

(***************************************************************************)
(* C12: generate_cache_key returns equal keys for two calls exactly when   *)
(* the calls have identical arguments and identical prefix                 *)
(***************************************************************************)
C12_KeyInjective ==
    fnIn.fn = "generate_cache_key"
    => ((fnOut[1] = fnOut[2])
        <=> (fnIn.args1 = fnIn.args2 /\ fnIn.prefix1 = fnIn.prefix2))

(***************************************************************************)
(* C13: contextualize_query never raises.  With an empty history it        *)
(* returns the query, makes no LLM call and leaves the                     *)
(* contextualized-query cache as it was, counters included.  When it calls *)
(* the LLM it returns the query if the call fails or the rewritten text,   *)
(* stripped, has 3 characters or fewer, and the rewritten text otherwise.  *)
(* When it finds a live entry it returns the stored result of the earlier  *)
(* call.                                                                   *)
(***************************************************************************)
C13_Post(q, h, llm) ==
    /\ ~lastApp'.raised
    /\ Len(h) = 0
       => /\ lastApp'.ret = q
          /\ lastApp'.collab = 0
          /\ ctxCache' = ctxCache
    /\ (Len(h) > 0 /\ lastApp'.collab = 0)
       => /\ lastApp'.prev.present
          /\ lastApp'.ret = lastApp'.prev.value
    /\ lastApp'.collab > 0
       => lastApp'.ret = IF llm.kind # "text" THEN q
                         ELSE IF Len(strip(llm.text)) <= 3 THEN q
                         ELSE strip(llm.text)
C13_Step ==
    \A q \in QueryTexts, h \in Histories, llm \in LLMOutcomes :
        (lastApp'.fn = "contextualize_query" /\ ContextualizeQuery(q, h, llm))
            => C13_Post(q, h, llm)
C13_WitnessRewritten ==
    /\ lastApp.fn = "contextualize_query"
    /\ lastApp.collab = 1
    /\ lastApp.ret = <<"w", "h", "a", "t">>
\* the LLM call failed
C13_WitnessFailed ==
    /\ lastApp.fn = "contextualize_query"
    /\ lastApp.failure = "connection_refused"
    /\ lastApp.ret \in QueryTexts

(***************************************************************************)
(* C14: the severity mapper returns for every value and never raises:      *)
(* None gives None; an int or a float gives itself as a float; a text that *)
(* is a label of the severity map gives the map's value, between 0 and 10; *)
(* another text that parses as a number gives that number; every other     *)
(* text and every value of another type gives None.  (A bool, which Python *)
(* counts among the ints, is only required to return.)                     *)
(***************************************************************************)
C14_MapperTotal ==
    fnIn.fn = "_map_symptom_to_score" =>
        LET value == fnIn.value
            parsed == float_of_str(value.text)
        IN  /\ fnOut.kind # "raise"
            /\ value.type = "NoneType" => fnOut = NoScore
            /\ value.type = "int"
               => /\ fnOut.kind = "float"
                  /\ value.exp = 0 => fnOut.tenths = 10 * value.num
            /\ value.type = "float" => fnOut = Score(value.num)
            /\ (value.type = "str" /\ value.text \in Labels)
               => /\ fnOut.kind = "float"
                  /\ fnOut.tenths \in 0..100
                  /\ \E i \in DOMAIN SYMPTOM_SEVERITY_MAP :
                         /\ SYMPTOM_SEVERITY_MAP[i].label = value.text
                         /\ fnOut.tenths = 10 * SYMPTOM_SEVERITY_MAP[i].score
            /\ (value.type = "str" /\ value.text \notin Labels)
               => fnOut = IF parsed.kind = "float" THEN parsed ELSE NoScore
            /\ value.type \in {"list", "absent"} => fnOut = NoScore

(***************************************************************************)
(* C15: analyze_symptom_statistics returns None exactly when fewer than 7  *)
(* of the entries carry, under the symptom key, a value that maps to a     *)
(* score, and a statistics record otherwise, whatever entries without the  *)
(* key, with None or with an unrecognized text lie between them.           *)
(***************************************************************************)
ValidEntries(entries, key) ==
    {i \in DOMAIN entries :
        HasKey(entries[i], key) /\ map_symptom_to_score(entries[i][key]).kind = "float"}
C15_SevenValues ==
    fnIn.fn = "analyze_symptom_statistics" =>
        LET valid == Cardinality(ValidEntries(fnIn.entries, fnIn.symptom_key)) IN
        /\ fnOut.kind = "None" <=> valid < 7
        /\ fnOut.kind = "SymptomStatistics" <=> valid >= 7
        /\ fnOut.kind = "SymptomStatistics" => fnOut.count = valid
\* 6 valid values among 9 entries: None
C15_Witness ==
    /\ fnIn.fn = "analyze_symptom_statistics"
    /\ Len(fnIn.entries) = 9
    /\ Cardinality(ValidEntries(fnIn.entries, fnIn.symptom_key)) = 6
    /\ fnIn.entries[4].rest = Absent
    /\ fnOut.kind = "None"
\* 7 valid values among 9 entries: a record
C15_WitnessSeven ==
    /\ fnIn.fn = "analyze_symptom_statistics"
    /\ Len(fnIn.entries) = 9
    /\ Cardinality(ValidEntries(fnIn.entries, fnIn.symptom_key)) = 7
    /\ fnIn.entries[4].rest = Str(Garbage)
    /\ fnOut.kind = "SymptomStatistics"

(***************************************************************************)
(* C16 as claimed: the trend of a statistics record is "worsening" exactly *)
(* when the slope is above 0.05, "improving" exactly when it is below      *)
(* -0.05 and "stable" otherwise; a constant series is "stable"; k entries  *)
(* of a lower score followed by k of a higher score are "worsening", and k *)
(* of a higher score followed by k of a lower one "improving".             *)
(***************************************************************************)
SeriesScores(entries, key) == MappedScores(RawValuesOf(entries, key)).values
\* the entries are k entries of one label followed by k of another
IsStep(entries, key) ==
    /\ Len(entries) >= 2
    /\ Len(entries) % 2 = 0
    /\ entries[1][key].type = "str"
    /\ entries[Len(entries)][key].type = "str"
    /\ entries = StepSeries(key, Len(entries) \div 2, entries[1][key].text,
                            entries[Len(entries)][key].text)
StepFrom(entries, key) == map_symptom_to_score(entries[1][key]).tenths
StepTo(entries, key) == map_symptom_to_score(entries[Len(entries)][key]).tenths
C16_SlopeThresholds ==
    /\ fnOut.trend = "worsening" <=> 2 * fnOut.slope.num > fnOut.slope.den
    /\ fnOut.trend = "improving" <=> 2 * fnOut.slope.num < 0 - fnOut.slope.den
    /\ fnOut.trend \in {"worsening", "improving", "stable"}
    /\ fnOut.slope.den > 0
C16_Constant ==
    LET values == SeriesScores(fnIn.entries, fnIn.symptom_key) IN
    (\A i \in DOMAIN values : values[i] = values[1]) => fnOut.trend = "stable"
C16_StepsAlwaysTrend ==
    (fnIn.fn = "analyze_symptom_statistics" /\ fnOut.kind = "SymptomStatistics") =>
        /\ C16_SlopeThresholds
        /\ C16_Constant
        /\ IsStep(fnIn.entries, fnIn.symptom_key)
           => LET low == StepFrom(fnIn.entries, fnIn.symptom_key)
                  high == StepTo(fnIn.entries, fnIn.symptom_key)
              IN  /\ low < high => fnOut.trend = "worsening"
                  /\ low > high => fnOut.trend = "improving"

(***************************************************************************)
(* C16 as amended: the thresholds and the constant series as claimed; k    *)
(* entries of score a followed by k of score b, the least-squares slope of *)
(* which is 3k(b - a) / (4k^2 - 1), are "worsening" exactly when           *)
(* 60k(b - a) > 4k^2 - 1, "improving" exactly when 60k(a - b) > 4k^2 - 1   *)
(* and "stable" otherwise.                                                  *)
(***************************************************************************)
C16_Trend ==
    (fnIn.fn = "analyze_symptom_statistics" /\ fnOut.kind = "SymptomStatistics") =>
        /\ C16_SlopeThresholds
        /\ C16_Constant
        /\ IsStep(fnIn.entries, fnIn.symptom_key)
           => LET k == Len(fnIn.entries) \div 2
                  a == StepFrom(fnIn.entries, fnIn.symptom_key)
                  b == StepTo(fnIn.entries, fnIn.symptom_key)
              IN  \* the scores are in tenths
                  /\ fnOut.trend = "worsening" <=> 6 * k * (b - a) > 4 * k * k - 1
                  /\ fnOut.trend = "improving" <=> 6 * k * (a - b) > 4 * k * k - 1
\* 46 entries of "Flashing" (7) followed by 46 of "Heavy" (10): slope
\* 414/8463, "stable"
C16_Witness ==
    /\ fnIn.fn = "analyze_symptom_statistics"
    /\ fnIn.entries = StepSeries("climate", 46, Flashing, Heavy)
    /\ fnOut.kind = "SymptomStatistics"
    /\ fnOut.trend = "stable"
\* 5 entries of "Restorative" followed by 5 of "3 AM Awakening"
C16_WitnessTest ==
    /\ fnIn.fn = "analyze_symptom_statistics"
    /\ fnIn.entries = StepSeries("rest", 5, Restorative, Awakening3AM)
    /\ fnOut.trend = "worsening"
\* its mirror image
C16_WitnessMirror ==
    /\ fnIn.fn = "analyze_symptom_statistics"
    /\ fnIn.entries = StepSeries("rest", 5, Awakening3AM, Restorative)
    /\ fnOut.trend = "improving"

(***************************************************************************)
(* C17: with fewer than 7 entries assess_risk_level returns level          *)
(* "insufficient_data", score 0 and no flags; with 7 or more the level is  *)
(* "high" exactly when the score is 6 or more, "moderate" exactly when it  *)
(* is 3, 4 or 5, and "low" exactly when it is 2 or less.                   *)
(***************************************************************************)
C17_RiskLevel ==
    fnIn.fn = "assess_risk_level" =>
        IF Len(fnIn.entries) < 7
        THEN /\ fnOut.level = "insufficient_data"
             /\ fnOut.score = 0
             /\ fnOut.flags = << >>
        ELSE /\ fnOut.level = "high" <=> fnOut.score >= 6
             /\ fnOut.level = "moderate" <=> (3 <= fnOut.score /\ fnOut.score <= 5)
             /\ fnOut.level = "low" <=> fnOut.score <= 2
             /\ fnOut.level # "insufficient_data"
\* a score of exactly 6 is "high"
C17_Witness ==
    /\ fnIn.fn = "assess_risk_level"
    /\ fnOut.score = 6
    /\ fnOut.level = "high"
\* 7 entries with nothing to flag: "low" with score 0
C17_WitnessLow ==
    /\ fnIn.fn = "assess_risk_level"
    /\ Len(fnIn.entries) = 7
    /\ fnOut.score = 0
    /\ fnOut.level = "low"
\* 6 entries
C17_WitnessShort ==
    /\ fnIn.fn = "assess_risk_level"
    /\ Len(fnIn.entries) = 6
    /\ fnOut.level = "insufficient_data"
C17_WitnessModerate ==
    /\ fnIn.fn = "assess_risk_level"
    /\ fnOut.score = 5
    /\ fnOut.level = "moderate"

(***************************************************************************)
(* C18: for 7 or more entries the score is the sum of the points of the    *)
(* returned flags (persistent_poor_sleep 2, severe_hot_flashes 2,          *)
(* severe_brain_fog 1, rapid_deterioration 3, multiple_severe_symptoms 2,  *)
(* concerning_user_notes 1), no flag is returned twice, and                *)
(* concerning_user_notes is returned once however many of the last 7 notes *)
(* hold a keyword.                                                         *)
(***************************************************************************)
C18_Points ==
    [persistent_poor_sleep |-> 2, severe_hot_flashes |-> 2, severe_brain_fog |-> 1,
     rapid_deterioration |-> 3, multiple_severe_symptoms |-> 2, concerning_user_notes |-> 1]
FlagSet(flags) == {flags[i] : i \in DOMAIN flags}
RECURSIVE SumOver(_, _)
SumOver(f, S) ==
    IF S = {} THEN 0
    ELSE LET x == CHOOSE y \in S : TRUE IN f[x] + SumOver(f, S \ {x})
ConcerningNotes(entries) ==
    {i \in DOMAIN entries : i > Len(entries) - 7 /\ Concerning(entries[i])}
C18_ScoreIsSum ==
    (fnIn.fn = "assess_risk_level" /\ Len(fnIn.entries) >= 7) =>
        /\ FlagSet(fnOut.flags) \subseteq DOMAIN C18_Points
        /\ Cardinality(FlagSet(fnOut.flags)) = Len(fnOut.flags)
        /\ fnOut.score = SumOver(C18_Points, FlagSet(fnOut.flags))
        /\ "concerning_user_notes" \in FlagSet(fnOut.flags)
           <=> ConcerningNotes(fnIn.entries) # {}
\* three of the last 7 notes hold a keyword: the flag once, the score with
\* one point for it
C18_Witness ==
    /\ fnIn.fn = "assess_risk_level"
    /\ Cardinality(ConcerningNotes(fnIn.entries)) = 3
    /\ fnOut.flags = <<"persistent_poor_sleep", "concerning_user_notes">>
    /\ fnOut.score = 3
\* every flag at once: 2 + 2 + 1 + 3 + 2 + 1
C18_WitnessAll ==
    /\ fnIn.fn = "assess_risk_level"
    /\ Len(fnOut.flags) = 6
    /\ fnOut.score = 11

(***************************************************************************)
(* C19: multiple_severe_symptoms is among the flags exactly when at least  *)
(* two of persistent_poor_sleep, severe_hot_flashes and severe_brain_fog   *)
(* are, and each of these three is among the flags exactly when the mean   *)
(* of the mapped scores of its symptom over the last 7 entries is above 7  *)
(* (there being 7 entries, and a score among them).                        *)
(***************************************************************************)
SevereMean(entries, key) ==
    /\ Len(entries) >= 7
    /\ LET values == WeekScores(LastWeek(entries), key).values IN
       /\ Len(values) > 0
       /\ Sum(values) > 70 * Len(values)
C19_SevereCluster ==
    fnIn.fn = "assess_risk_level" =>
        LET flags == FlagSet(fnOut.flags)
            severe == flags \cap {"persistent_poor_sleep", "severe_hot_flashes",
                                  "severe_brain_fog"}
        IN  /\ "multiple_severe_symptoms" \in flags <=> Cardinality(severe) >= 2
            /\ "persistent_poor_sleep" \in flags <=> SevereMean(fnIn.entries, "rest")
            /\ "severe_hot_flashes" \in flags <=> SevereMean(fnIn.entries, "climate")
            /\ "severe_brain_fog" \in flags <=> SevereMean(fnIn.entries, "clarity")
\* exactly two severe symptoms
C19_Witness ==
    /\ fnIn.fn = "assess_risk_level"
    /\ fnOut.flags = <<"persistent_poor_sleep", "severe_brain_fog", "multiple_severe_symptoms">>
\* a week of "Flashing": a mean of exactly 7 is not severe
C19_WitnessBoundary ==
    /\ fnIn.fn = "assess_risk_level"
    /\ Len(fnIn.entries) = 7
    /\ \A i \in 1..7 : fnIn.entries[i].climate = Str(Flashing)
    /\ "severe_hot_flashes" \notin FlagSet(fnOut.flags)
\* one severe symptom: no cluster
C19_WitnessOne ==
    /\ fnIn.fn = "assess_risk_level"
    /\ fnOut.flags = <<"severe_hot_flashes">>

(***************************************************************************)
(* C20: rapid_deterioration is among the flags exactly when there are 14   *)
(* entries or more and the mean mapped rest score of the last 7 exceeds    *)
(* the mean mapped rest score of the 7 before them by more than 2.0.       *)
(***************************************************************************)
RestMean(week) == WeekScores(week, "rest").values
C20_RapidDeterioration ==
    fnIn.fn = "assess_risk_level" =>
        ("rapid_deterioration" \in FlagSet(fnOut.flags)
         <=> /\ Len(fnIn.entries) >= 14
             /\ LET recent == RestMean(LastWeek(fnIn.entries))
                    prev == RestMean(WeekBefore(fnIn.entries))
                IN  /\ Len(recent) > 0
                    /\ Len(prev) > 0
                    /\ Sum(recent) * Len(prev) - Sum(prev) * Len(recent)
                       > 20 * Len(recent) * Len(prev))
(***************************************************************************)
(* C29: a get changes one counter and, for an expired key, that key's own  *)
(* entry, and nothing else: a hit leaves the whole map as it was (value,   *)
(* timestamp and ttl of the entry read included), a get of an absent key   *)
(* leaves the map as it was, and a get of an expired key removes that      *)
(* entry only, the others keeping their content and their order.  So the   *)
(* entry _evict_oldest would pick among the entries a get leaves is the    *)
(* one it would have picked among them before the get.                     *)
(***************************************************************************)
OtherEntries(entries, k) == SelectSeq(entries, LAMBDA e : e.key # k)

C29_GetStep ==
    last'.op = "get" =>
        /\ cache'.max_size = cache.max_size
        /\ cache'.hits + cache'.misses = cache.hits + cache.misses + 1
        /\ cache'.hits >= cache.hits
        /\ cache'.misses >= cache.misses
        /\ OtherEntries(cache'.entries, last'.key) = OtherEntries(cache.entries, last'.key)
        /\ last'.ret # None => cache'.entries = cache.entries
        /\ last'.key \notin KeysOf(cache.entries) => cache'.entries = cache.entries
        /\ last'.removed \subseteq {last'.key}
        /\ last'.removed = {} => cache'.entries = cache.entries
        /\ last'.removed # {} => cache'.entries = OtherEntries(cache.entries, last'.key)
        /\ evict_oldest(cache'.entries)
             = evict_oldest(SelectSeq(cache.entries,
                                      LAMBDA e : e.key \notin last'.removed))

C29_GetFrame == [][C29_GetStep]_vars

\* a hit on an entry that is not the newest one, read after the clock moved
C29_Witness ==
    /\ last.op = "get"
    /\ last.ret # None
    /\ Len(cache.entries) = 2
    /\ EntryOf(cache.entries, last.key).timestamp < now
    /\ OldestIndex(cache.entries) = IndexOf(cache.entries, last.key)

\* a get of an expired key has removed it and left the other entry
C29_WitnessExpired ==
    /\ last.op = "get"
    /\ last.removed = {last.key}
    /\ Len(cache.entries) = 1
(***************************************************************************)
(* C30: the score assess_risk_level returns is an integer from 0 to 10,    *)
(* the scale on which _generate_risk_rationale and the report block        *)
(* present it ("score: n/10").                                             *)
(***************************************************************************)
\* the denominator of "(score: {score}/10)"
ScoreScale == 10

C30_ScoreRange ==
    fnIn.fn = "assess_risk_level" => fnOut.score \in 0..ScoreScale
(***************************************************************************)
(* C26: with 14 or more rest values, every index that has 7 values before  *)
(* it and 7 values after is tested, the 7 before against the 7 after, and  *)
(* flagged when the p-value is below 0.05; the change points are the dates *)
(* of the first 3 flagged indices in increasing order; with fewer than 14  *)
(* values there are none.  C26_ChangePoints takes the 7 values after to    *)
(* begin at the index, as the windows of the code do; C26_StrictlyAfter    *)
(* takes them to begin behind it.                                          *)
(***************************************************************************)
RestSeries(entries) == get_mapped_values(entries, "rest").values
\* the places k (index k - 1) with 7 values before and 7 from the index on
C26_Flagged(values) ==
    SelectSeq([k \in DOMAIN values |-> k],
              LAMBDA k : /\ k - 7 >= 1
                         /\ k + 6 <= Len(values)
                         /\ ttest_ind(SubSeq(values, k - 7, k - 1), SubSeq(values, k, k + 6)))
\* the places k with 7 values before and 7 values behind the index
C26_FlaggedBehind(values) ==
    SelectSeq([k \in DOMAIN values |-> k],
              LAMBDA k : /\ k - 7 >= 1
                         /\ k + 7 <= Len(values)
                         /\ ttest_ind(SubSeq(values, k - 7, k - 1),
                                      SubSeq(values, k + 1, k + 7)))
C26_Dates(entries, flagged) ==
    IF Len(entries) < 14 THEN << >> ELSE FirstDates(DatesOf(entries, flagged), 3).dates

C26_ChangePoints ==
    (fnIn.fn = "detect_patterns" /\ fnOut.kind = "PatternAnalysis") =>
        fnOut.change_points = C26_Dates(fnIn.entries, C26_Flagged(RestSeries(fnIn.entries)))

C26_StrictlyAfter ==
    (fnIn.fn = "detect_patterns" /\ fnOut.kind = "PatternAnalysis") =>
        fnOut.change_points
            = C26_Dates(fnIn.entries, C26_FlaggedBehind(RestSeries(fnIn.entries)))

\* what the code returns: the indices 7 .. n - 8, each with the 7 values
\* before it against the 7 values from it on
C26_AsCoded ==
    (fnIn.fn = "detect_patterns" /\ fnOut.kind = "PatternAnalysis") =>
        /\ Len(fnOut.change_points) <= 3
        /\ Len(fnIn.entries) <= 14 => fnOut.change_points = << >>
        /\ fnOut.change_points
             = C26_Dates(fnIn.entries,
                         SelectSeq(C26_Flagged(RestSeries(fnIn.entries)),
                                   LAMBDA k : k + 7 <= Len(fnIn.entries)))
(***************************************************************************)
(* C27: for every series of at least 7 mapped rest values, detect_patterns *)
(* and analyze_symptom_statistics give the same trend direction: worsening *)
(* when the slope is above 0.05, improving when it is below -0.05, stable  *)
(* otherwise, a slope of exactly 0.05 or -0.05 included.                   *)
(***************************************************************************)
AllMapped(entries, key) ==
    \A i \in DOMAIN entries :
        HasKey(entries[i], key) /\ map_symptom_to_score(entries[i][key]).kind = "float"
C27_Rule(slope) ==
    IF 2 * slope.num > slope.den THEN "worsening"
    ELSE IF 2 * slope.num < 0 - slope.den THEN "improving"
    ELSE "stable"
C27_SameDirection ==
    (/\ fnIn.fn = "detect_patterns"
     /\ fnOut.kind = "PatternAnalysis"
     /\ Len(fnIn.entries) >= 7
     /\ AllMapped(fnIn.entries, "rest")) =>
        /\ fnOut.trend_direction = analyze_symptom_statistics(fnIn.entries, "rest").trend
        /\ fnOut.trend_direction = C27_Rule(linregress(RestSeries(fnIn.entries)))

\* away from a slope of exactly 0.05 or -0.05 the two directions agree
C27_OffThreshold ==
    (/\ fnIn.fn = "detect_patterns"
     /\ fnOut.kind = "PatternAnalysis"
     /\ Len(fnIn.entries) >= 7
     /\ AllMapped(fnIn.entries, "rest")
     /\ 2 * Abs(linregress(RestSeries(fnIn.entries)).num)
            # linregress(RestSeries(fnIn.entries)).den) =>
        fnOut.trend_direction = analyze_symptom_statistics(fnIn.entries, "rest").trend
(***************************************************************************)
(* C28: detect_patterns returns the explicit empty result (no weekly or    *)
(* monthly cycle, confidences 0, no correlations, trend "unknown", no      *)
(* outliers, no change points) exactly when fewer than 7 entries are       *)
(* given; a list of 7 or more entries, whatever its values, yields an      *)
(* analysis with correlations and a trend other than "unknown".            *)
(***************************************************************************)
C28_IsEmpty(r) ==
    /\ r.kind = "PatternAnalysis"
    /\ ~r.has_weekly_cycle
    /\ ~r.has_monthly_cycle
    /\ r.weekly_confidence = 0
    /\ r.monthly_confidence = 0
    /\ r.correlations = {}
    /\ r.trend_direction = "unknown"
    /\ r.outlier_dates = << >>
    /\ r.change_points = << >>
C28_IsAnalysis(r) ==
    /\ r.kind = "PatternAnalysis"
    /\ r.correlations # {}
    /\ r.trend_direction \in {"stable", "worsening", "improving"}

C28_EmptyBelowSeven ==
    fnIn.fn = "detect_patterns" =>
        IF Len(fnIn.entries) < 7 THEN C28_IsEmpty(fnOut) ELSE C28_IsAnalysis(fnOut)

\* the same of the calls that return
C28_WhenReturned ==
    (fnIn.fn = "detect_patterns" /\ fnOut.kind # "raise") =>
        IF Len(fnIn.entries) < 7 THEN C28_IsEmpty(fnOut) ELSE C28_IsAnalysis(fnOut)

\* 7 entries without a valid value, analysed as a flat series of 5s
C28_Defaults ==
    /\ fnIn.fn = "detect_patterns"
    /\ Len(fnIn.entries) = 7
    /\ \A i \in 1..7 : ~HasKey(fnIn.entries[i], "rest")
    /\ C28_IsAnalysis(fnOut)
    /\ fnOut.trend_direction = "stable"

(***************************************************************************)
(* C21: analyze_symptom_statistics, detect_patterns and assess_risk_level  *)
(* return a result for every list of entries in which rest, climate,       *)
(* clarity, notes and timestamp may be missing, null, unrecognized or      *)
(* unparseable: none of them raises.                                       *)
(***************************************************************************)
C21_NeverRaises ==
    fnIn.fn \in {"analyze_symptom_statistics", "detect_patterns", "assess_risk_level"} =>
        fnOut.kind # "raise"

\* the exceptions that leave the three methods
C21_RaisedNotes ==
    /\ fnIn.fn = "assess_risk_level"
    /\ fnOut.kind = "raise"
    /\ fnOut.exc = "AttributeError"
C21_RaisedTimestamp ==
    /\ fnIn.fn = "detect_patterns"
    /\ fnOut.kind = "raise"
    /\ fnOut.exc = "TypeError"
C21_RaisedOverflow ==
    /\ fnIn.fn = "analyze_symptom_statistics"
    /\ fnOut.kind = "raise"
    /\ fnOut.exc = "OverflowError"
\* without a null note, a timestamp that is not a text and an int beyond the
\* floats, every call returns
C21_Tolerated(e) ==
    /\ \A key \in {"rest", "climate", "clarity"} : e[key].type # "int"
    /\ e.notes.type \in {"str", "absent"}
    /\ TimestampOf(e).type \in {"str", "absent"}
C21_OtherwiseReturns ==
    (/\ fnIn.fn \in {"analyze_symptom_statistics", "detect_patterns", "assess_risk_level"}
     /\ \A i \in DOMAIN fnIn.entries : C21_Tolerated(fnIn.entries[i])) =>
        fnOut.kind # "raise"

(***************************************************************************)
(* C24: the history file only grows under save_pulse_entry: after every    *)
(* step the entries stored before it are still there, with their content   *)
(* and in their order, and every entry whose save returned (True, "") is   *)
(* stored, whether calls overlap and whether the file could be read.       *)
(***************************************************************************)
IsPrefix(a, b) == Len(a) <= Len(b) /\ SubSeq(b, 1, Len(a)) = a
IsStored(e, fs) == \E j \in DOMAIN Stored(fs) : Stored(fs)[j] = e
C24_AppendOnly ==
    [][/\ IsPrefix(Stored(pulse), Stored(pulse'))
       /\ \A i \in DOMAIN committed' : IsStored(committed'[i], pulse')]_vars
\* two saves that overlapped have both returned (True, ""), one entry is
\* stored
C24_LostUpdate ==
    /\ \A t \in Threads : pc[t] = "idle" /\ ret[t].ok
    /\ Len(committed) = 2
    /\ pulse.status = "list" /\ Len(pulse.content) = 1
\* a save on a file that could not be opened has returned (True, ""), the
\* entry of the earlier run is gone
C24_Overwritten ==
    /\ Len(committed) = 1
    /\ ~IsStored(OldEntry, pulse)
    /\ pulse.backups = << >>
    /\ pulse.status = "list"

(***************************************************************************)
(* C25: save_pulse_entry is all-or-nothing.  A step changes the history    *)
(* file only by putting a complete list in its place, which is the list a  *)
(* call loaded with its entry appended or the list of a backup; and a call *)
(* that has returned (False, message) has neither changed the history a    *)
(* load returns nor invalidated a cache.                                   *)
(***************************************************************************)
FileOf(fs) == File(fs.status, fs.content, fs.mtime)
C25_WholeFile ==
    \/ FileOf(pulse') = FileOf(pulse)
    \/ /\ pulse'.status = "list"
       /\ \/ \E t \in Threads :
                /\ pc[t] = "shutil.move"
                /\ pulse'.content = loc[t].history
                /\ loc[t].history[Len(loc[t].history)] = loc[t].entry
          \/ \E i \in DOMAIN pulse.backups :
                /\ pulse.backups[i].status = "list"
                /\ pulse'.content = pulse.backups[i].content
C25_Failed(t) == pc[t] = "idle" /\ ~ret[t].ok
C25_WitnessInvalid ==
    \E t \in Threads :
        /\ C25_Failed(t)
        /\ ret[t].msg \in {"Invalid entry", "Invalid structure"}
        /\ Persisted(pulse) = <<OldEntry>>

(***************************************************************************)
(* C22: generate_insights_report returns, and returns a triple: it makes   *)
(* at most max_retries + 1 attempts, one when retry_on_failure is false,   *)
(* sleeps 2, 4, 8, ... seconds before its retries, makes no attempt after  *)
(* one that gave a text with characters, and returns (False, message,      *)
(* None) when its last attempt raised or gave an empty text.               *)
(***************************************************************************)
C22_Returned == reqPc = "returned"
C22_Failure(g) == g.kind = "raise" \/ IsBlankText(g.text)
C22_Waits == <<2, 4, 8, 16, 32>>
C22_Loop(made, retry_on_failure, max_retries) ==
    /\ made <= max_retries + 1
    /\ ~retry_on_failure => made <= 1
    /\ IsPrefix(reqLoc.slept, C22_Waits)
    /\ Len(reqLoc.slept) \in {made - 1, made}
    /\ \A i \in 1..(made - 1) : C22_Failure(reqLoc.outcomes[i])
C22_Result(made, retry_on_failure, max_retries) ==
    /\ reqLoc.result.ok \in BOOLEAN
    /\ ~reqLoc.result.ok => reqLoc.result.metrics = None /\ reqLoc.result.text # None /\ Len(reqLoc.result.text) > 0
    /\ reqLoc.result.ok => reqLoc.result.metrics # None /\ ~IsBlankText(reqLoc.result.text)
    /\ made = 0 => ~reqLoc.result.ok
    /\ made > 0 => Len(reqLoc.slept) = made - 1
    /\ (made > 0 /\ C22_Failure(reqLoc.outcomes[made]))
       => ~reqLoc.result.ok /\ (made = max_retries + 1 \/ ~retry_on_failure)
C22_Attempts ==
    fnIn.fn = "generate_insights_report"
    => /\ C22_Loop(Len(reqLoc.outcomes), fnIn.retry_on_failure, fnIn.max_retries)
       /\ C22_Returned
          => C22_Result(Len(reqLoc.outcomes), fnIn.retry_on_failure, fnIn.max_retries)
C22_WitnessRetried ==
    /\ C22_Returned
    /\ Len(reqLoc.outcomes) = 2
    /\ reqLoc.result.ok
\* the text of an attempt had characters and none was left of it
C22_WitnessCleanedAway ==
    /\ C22_Returned
    /\ Len(reqLoc.outcomes) = 1
    /\ ~C22_Failure(reqLoc.outcomes[1])
    /\ reqLoc.result = ReportResult(FALSE, <<"Unknown error">>, None)

(***************************************************************************)
(* C23: when the model server fails, call_medgemma returns an error        *)
(* message and call_medgemma_stream yields one as its last chunk, and the  *)
(* message of a timeout, of a refused connection and of any other failure  *)
(* are never the same.                                                     *)
(***************************************************************************)
IsErrorMessage(msg) == Len(msg) > 0 /\ msg[1] = "Error: "
C23_PostKind(outcome) ==
    IF outcome.exc # NoExc THEN outcome.exc.kind
    ELSE IF outcome.status # OK \/ ResponseText(outcome.body).exc # NoExc THEN "other"
    ELSE "none"
C23_StreamKind(outcome) ==
    IF outcome.exc # NoExc THEN outcome.exc.kind
    ELSE IF Streamed(outcome.lines).exc # NoExc THEN "other"
    ELSE IF outcome.interrupted # NoExc THEN outcome.interrupted.kind
    ELSE IF outcome.status # OK THEN "other"
    ELSE "none"
C23_Kind(fn, outcome) ==
    IF fn = "call_medgemma" THEN C23_PostKind(outcome) ELSE C23_StreamKind(outcome)
\* what the caller is left with: the text returned, the last chunk yielded
C23_Message(fn, out) ==
    IF fn = "call_medgemma" THEN out
    ELSE IF Len(out) = 0 THEN << >>
    ELSE out[Len(out)]
C23_Messages(kind) ==
    {call_medgemma(o) : o \in {p \in PostOutcomes : C23_PostKind(p) = kind}}
    \cup {C23_Message("call_medgemma_stream", call_medgemma_stream(o)) :
             o \in {p \in StreamOutcomes : C23_StreamKind(p) = kind}}
C23_Told(kind, msg) ==
    /\ IsErrorMessage(msg)
    /\ \A other \in {"timeout", "refused", "other"} \ {kind} : msg \notin C23_Messages(other)
C23_Reported ==
    (fnIn.fn \in {"call_medgemma", "call_medgemma_stream"}
     /\ C23_Kind(fnIn.fn, fnIn.outcome) # "none")
    => C23_Told(C23_Kind(fnIn.fn, fnIn.outcome), C23_Message(fnIn.fn, fnOut))
\* the same for the failures that reach the caller as an exception: of the
\* POST, of the JSON decoding, of the iteration over the lines
C23_ByException(fn, outcome) ==
    \/ outcome.exc # NoExc
    \/ fn = "call_medgemma" /\ ResponseText(outcome.body).exc # NoExc
    \/ fn = "call_medgemma_stream"
       /\ (Streamed(outcome.lines).exc # NoExc \/ outcome.interrupted # NoExc)
C23_ExceptionsReported ==
    (fnIn.fn \in {"call_medgemma", "call_medgemma_stream"}
     /\ C23_ByException(fnIn.fn, fnIn.outcome))
    => /\ C23_Told(C23_Kind(fnIn.fn, fnIn.outcome), C23_Message(fnIn.fn, fnOut))
       /\ C23_Kind(fnIn.fn, fnIn.outcome) = "timeout"
          <=> C23_Message(fnIn.fn, fnOut) = TimedOut
\* a refused connection, told by the text of the exception alone
C23_Refused ==
    /\ fnIn.fn = "call_medgemma"
    /\ fnIn.outcome.exc.kind = "refused"
    /\ fnOut = <<"Error: ", "Connection refused">>
\* the server answered 404 with an error body: nothing is yielded
C23_Silent ==
    /\ fnIn.fn = "call_medgemma_stream"
    /\ fnIn.outcome.status \in HttpErrors
    /\ fnOut = << >>

====
